---- MODULE Spec2Model ----
(***************************************************************************)
(* State-machine model of the crypto backtester: the risk manager          *)
(* (src/src/risk/manager.py), the trade simulation loop of the             *)
(* backtesting engine (src/src/backtester/engine.py), the trade metrics    *)
(* (src/src/backtester/metrics.py), the RSI strategy                       *)
(* (src/src/strategies/rsi_strategy.py) and the BingX market data client   *)
(* (src/src/api/bingx_client.py).                                          *)
(*                                                                         *)
(* Floating point values are modelled as exact rationals <<n, d>> in       *)
(* lowest terms with d > 0; Python's None for an optional float is the     *)
(* pair <<0, 0>>.  Timestamps of bars are the bar positions 1..Len(data).  *)
(***************************************************************************)
EXTENDS Integers, Sequences, FiniteSets, TLC

\* ------------------------------------------------------------------------
\* Bounds of the model
\* ------------------------------------------------------------------------
MaxBars == 3
MaxPages == 2
TicksPerDay == 2
MaxCurve == 3
MaxTrades == 3
MaxEvents == 4
MaxRows == 2
MaxSeries == 4
MaxCalls == 3
RngModulus == 2
MaxDailyPnl == 2
MaxScan == 4
MaxEmaScan == 2
NumCdnUrls == 3

\* ------------------------------------------------------------------------
\* Exact arithmetic on floats
\* ------------------------------------------------------------------------
RECURSIVE GCD(_, _)
GCD(a, b) == IF b = 0 THEN a ELSE GCD(b, a % b)

Abs(x) == IF x < 0 THEN -x ELSE x

Norm(n, d) ==
  LET g == GCD(Abs(n), Abs(d))
      s == IF d < 0 THEN -1 ELSE 1
  IN  <<(s * n) \div g, (s * d) \div g>>

R(k) == <<k, 1>>
None == <<0, 0>>
IsNone(x) == x[2] = 0

Inv(a) == IF a[1] < 0 THEN <<-a[2], -a[1]>> ELSE <<a[2], a[1]>>
RAdd(a, b) ==
  LET g == GCD(a[2], b[2])
  IN  Norm(a[1] * (b[2] \div g) + b[1] * (a[2] \div g), (a[2] \div g) * b[2])
RSub(a, b) == RAdd(a, <<-b[1], b[2]>>)
RMul(a, b) ==
  LET g1 == GCD(Abs(a[1]), b[2])
      g2 == GCD(Abs(b[1]), a[2])
  IN  Norm((a[1] \div g1) * (b[1] \div g2), (a[2] \div g2) * (b[2] \div g1))
RDiv(a, b) == RMul(a, Inv(b))
RLt(a, b) ==
  LET g == GCD(a[2], b[2])
  IN  a[1] * (b[2] \div g) < b[1] * (a[2] \div g)
RLe(a, b) == ~RLt(b, a)
RAbs(a) == <<Abs(a[1]), a[2]>>
RMin(a, b) == IF RLt(b, a) THEN b ELSE a
RMax(a, b) == IF RLt(a, b) THEN b ELSE a
Zero == R(0)
One == R(1)
Inf == <<1, 0>>

\* ------------------------------------------------------------------------
\* State
\* ------------------------------------------------------------------------
VARIABLES
  entry,            \* which entry point was called: "run_backtest" or "_simulate_trading"
  data,             \* the bar series: closes, timestamps are positions
  rsi,              \* the 'rsi' column of the bar series (NaN or 0..100)
  strategy,         \* the strategy object: [buy_threshold, sell_threshold]
  signals,          \* the list of TradeSignal given to the simulator
  commission_rate,  \* BacktesterEngine.commission
  slippage,         \* BacktesterEngine.slippage
  parameters,       \* RiskManager.parameters
  initial_capital,
  pc,               \* position in the run
  bar,              \* next bar of the loop in _simulate_trading
  capital,
  current_trade,    \* <<>> for None, <<trade>> for an open Trade
  trades,
  equity_curve,
  daily_pnl,        \* RiskManager.daily_pnl
  exits,            \* per closed trade, what closed it
  results,          \* <<>> until the run returns, then <<BacktestResults>>
  \* a caller of the risk manager
  call,             \* arguments of the call: [capital, price, stop_loss_price, np] or [capital, current_equity]
  rpc,              \* position of that caller
  outcome,          \* <<>> until the call ends, then <<[raised, value]>>
  current_drawdown, \* RiskManager.current_drawdown
  \* the market data client
  api_key,          \* BingXClient.api_key
  secret_key,       \* BingXClient.secret_key
  use_synthetic,    \* BingXClient.use_synthetic
  op,               \* the client call under way and its arguments
  cpc,              \* position in that call
  current_start,    \* _fetch_real_data: start of the next window
  all_data,         \* _fetch_real_data: the pages received
  requests,         \* the HTTP requests sent, in order
  ret,              \* <<>> until the call returns, then <<value>>
  \* a caller of the metrics and indicator functions
  fn,               \* the function called and its arguments
  fpc,              \* position of that caller
  fret,             \* <<>> until the call returns, then <<value>>
  \* the dashboard (src/app.py)
  session_state,    \* st.session_state: each key <<>> when absent, else <<value>>
  view,             \* what the main area rendered in the last script run
  events,           \* the dashboard events handled so far, in order
  \* the embedded chart widget
  chart_args,       \* the data and trades handed to the chart renderer
  wpc,              \* position of the renderer and of the widget's script
  currentCdnIndex,  \* the script's index into cdnUrls
  container,        \* content of the widget's container element
  fallback_chart,   \* <<>>, or <<args>> once create_fallback_chart has drawn
  \* the synthetic generator of the client
  rng,              \* state of numpy's global random generator
  generated         \* the calls of the generator so far: arguments and output

engineVars == <<entry, data, rsi, strategy, signals, commission_rate, slippage,
                parameters, initial_capital, pc, bar, capital, current_trade,
                trades, equity_curve, daily_pnl, exits, results>>
riskVars == <<call, rpc, outcome, current_drawdown>>
clientVars == <<api_key, secret_key, use_synthetic, op, cpc, current_start,
                all_data, requests, ret>>

libVars == <<fn, fpc, fret>>

dashVars == <<session_state, view, events, chart_args, wpc, currentCdnIndex,
              container, fallback_chart>>

genVars == <<rng, generated>>

vars == <<engineVars, riskVars, clientVars, libVars, dashVars, genVars>>

\* ------------------------------------------------------------------------
\* Risk manager (src/src/risk/manager.py)
\* ------------------------------------------------------------------------
\* RiskParameters(): the dataclass defaults
DefaultRiskParameters ==
  [max_position_size |-> <<1, 10>>, stop_loss_pct |-> None,
   take_profit_pct |-> None, max_daily_loss |-> None, max_drawdown |-> None,
   risk_per_trade |-> <<1, 50>>]

\* Result of a call that may raise: [raised, value]
Returned(v) == [raised |-> FALSE, value |-> v]
Raised == [raised |-> TRUE, value |-> None]

\* risk_capital / risk_per_unit.  A Python float divided by 0.0 raises
\* ZeroDivisionError; as soon as one operand is a numpy float64 (np) the
\* quotient is inf, -inf or nan and the later min/max absorb it.
\* The value returned is min(max_position_size, risk_based_size).
MinWithRiskBasedSize(max_size, risk_capital, risk_per_unit, np) ==
  IF risk_per_unit # Zero
    THEN Returned(RMin(max_size, RDiv(risk_capital, risk_per_unit)))
  ELSE IF ~np THEN Raised
  ELSE IF RLt(risk_capital, Zero) THEN Returned(<<-1, 0>>)    \* -inf
  ELSE Returned(max_size)                                     \* min(x, inf), min(x, nan)

IsNegInf(x) == x[2] = 0 /\ x[1] < 0

calculate_position_size(p, cap, price, stop_loss_price, np) ==
  LET max_position_value == RMul(cap, p.max_position_size)
      max_position_size == RDiv(max_position_value, price)
      sized ==
        IF ~IsNone(stop_loss_price)
          THEN MinWithRiskBasedSize(max_position_size,
                                    RMul(cap, p.risk_per_trade),
                                    RAbs(RSub(price, stop_loss_price)), np)
          ELSE Returned(max_position_size)
  IN  IF sized.raised THEN Raised
      ELSE IF IsNegInf(sized.value) THEN Returned(Zero)
      ELSE Returned(RMax(Zero, sized.value))

\* should_enter_trade refusing already at the limits
should_enter_trade_AtLimit(p, dpnl, cap, current_equity) ==
  IF ~IsNone(p.max_daily_loss) /\ RLe(dpnl, RSub(Zero, p.max_daily_loss))
    THEN FALSE
  ELSE IF ~IsNone(p.max_drawdown)
            /\ RLe(p.max_drawdown, RDiv(RSub(cap, current_equity), cap))
    THEN FALSE
  ELSE TRUE

should_enter_trade(p, dpnl, cap, current_equity) ==
  IF ~IsNone(p.max_daily_loss) /\ RLt(dpnl, RSub(Zero, p.max_daily_loss))
    THEN FALSE
  ELSE IF ~IsNone(p.max_drawdown)
            /\ RLt(p.max_drawdown, RDiv(RSub(cap, current_equity), cap))
    THEN FALSE
  ELSE TRUE

calculate_stop_loss(p, entry_price, side) ==
  IF IsNone(p.stop_loss_pct) THEN None
  ELSE IF side = "long" THEN RMul(entry_price, RSub(One, p.stop_loss_pct))
  ELSE RMul(entry_price, RAdd(One, p.stop_loss_pct))

calculate_take_profit(p, entry_price, side) ==
  IF IsNone(p.take_profit_pct) THEN None
  ELSE IF side = "long" THEN RMul(entry_price, RAdd(One, p.take_profit_pct))
  ELSE RMul(entry_price, RSub(One, p.take_profit_pct))

should_exit_trade(current_price, side, stop_loss, take_profit) ==
  IF side = "long"
    THEN IF ~IsNone(stop_loss) /\ RLe(current_price, stop_loss) THEN "stop_loss"
         ELSE IF ~IsNone(take_profit) /\ RLe(take_profit, current_price) THEN "take_profit"
         ELSE ""
    ELSE IF ~IsNone(stop_loss) /\ RLe(stop_loss, current_price) THEN "stop_loss"
         ELSE IF ~IsNone(take_profit) /\ RLe(current_price, take_profit) THEN "take_profit"
         ELSE ""

\* ------------------------------------------------------------------------
\* Trades and metrics (src/src/backtester/metrics.py)
\* ------------------------------------------------------------------------
\* Trade(entry_time, entry_price, quantity, side, commission): the other
\* fields take the dataclass defaults (exit_time 0 stands for None)
Trade(entry_time, entry_price, quantity, side, commission) ==
  [entry_time |-> entry_time, exit_time |-> 0, entry_price |-> entry_price,
   exit_price |-> None, quantity |-> quantity, side |-> side, pnl |-> None,
   pnl_pct |-> None, commission |-> commission, is_open |-> TRUE]

RECURSIVE SumPnl(_)
SumPnl(ts) ==
  IF ts = <<>> THEN Zero ELSE RAdd(ts[1].pnl, SumPnl(Tail(ts)))

\* calculate_trade_metrics counting only the winning and the losing trades
calculate_trade_metrics_NoFlat(ts) ==
  LET IsClosed(t) == ~t.is_open /\ ~IsNone(t.pnl)
      closed_trades == SelectSeq(ts, IsClosed)
      IsWin(t) == RLt(Zero, t.pnl)
      IsLoss(t) == RLt(t.pnl, Zero)
      num_winning == Len(SelectSeq(closed_trades, IsWin))
      num_losing == Len(SelectSeq(closed_trades, IsLoss))
      total_trades == num_winning + num_losing
  IN  [total_trades |-> total_trades, winning_trades |-> num_winning,
       losing_trades |-> num_losing,
       win_rate |-> IF total_trades > 0
                      THEN RDiv(R(num_winning), R(total_trades)) ELSE Zero]

calculate_trade_metrics(ts) ==
  LET IsClosed(t) == ~t.is_open /\ ~IsNone(t.pnl)
      closed_trades == SelectSeq(ts, IsClosed)
      IsWin(t) == RLt(Zero, t.pnl)
      IsLoss(t) == RLt(t.pnl, Zero)
      num_winning == Len(SelectSeq(closed_trades, IsWin))
      num_losing == Len(SelectSeq(closed_trades, IsLoss))
      total_trades == Len(closed_trades)
      total_wins == SumPnl(SelectSeq(closed_trades, IsWin))
      total_losses == RAbs(SumPnl(SelectSeq(closed_trades, IsLoss)))
  IN  IF ts = <<>>
        THEN [total_trades |-> 0, winning_trades |-> 0, losing_trades |-> 0,
              win_rate |-> Zero, avg_win |-> Zero, avg_loss |-> Zero,
              profit_factor |-> Zero]
      ELSE IF closed_trades = <<>>
        THEN [total_trades |-> Len(ts), winning_trades |-> 0,
              losing_trades |-> 0, win_rate |-> Zero, avg_win |-> Zero,
              avg_loss |-> Zero, profit_factor |-> Zero]
      ELSE [total_trades |-> total_trades, winning_trades |-> num_winning,
            losing_trades |-> num_losing,
            win_rate |-> IF total_trades > 0
                           THEN RDiv(R(num_winning), R(total_trades)) ELSE Zero,
            avg_win |-> IF num_winning > 0
                          THEN RDiv(total_wins, R(num_winning)) ELSE Zero,
            avg_loss |-> IF num_losing > 0
                           THEN RDiv(total_losses, R(num_losing)) ELSE Zero,
            profit_factor |-> IF RLt(Zero, total_losses)
                                THEN RDiv(total_wins, total_losses) ELSE Inf]

\* calculate_max_drawdown with the drawdown taken from the first point of
\* the curve
calculate_max_drawdown_FromInitial(curve) ==
  LET drawdown == [k \in 1..Len(curve) |-> RSub(curve[k], curve[1])]
      max_dd == CHOOSE m \in {drawdown[k] : k \in 1..Len(curve)} :
                  \A k \in 1..Len(curve) : RLe(m, drawdown[k])
  IN  <<RAbs(max_dd), RAbs(RDiv(max_dd, curve[1]))>>

\* equity_curve.expanding().max()
RECURSIVE ExpandingMax(_)
ExpandingMax(curve) ==
  IF Len(curve) <= 1 THEN curve
  ELSE LET before == ExpandingMax(SubSeq(curve, 1, Len(curve) - 1))
       IN  Append(before, RMax(before[Len(before)], curve[Len(curve)]))

\* Series.min()
SeriesMin(series) ==
  CHOOSE m \in {series[k] : k \in 1..Len(series)} :
    \A k \in 1..Len(series) : RLe(m, series[k])

\* calculate_max_drawdown on a non-empty curve of positive values: the pair
\* (max_drawdown, max_drawdown_pct)
calculate_max_drawdown(curve) ==
  LET peak == ExpandingMax(curve)
      drawdown == [k \in 1..Len(curve) |-> RSub(curve[k], peak[k])]
      drawdown_pct == [k \in 1..Len(curve) |-> RDiv(drawdown[k], peak[k])]
      max_dd == SeriesMin(drawdown)
      max_dd_pct == SeriesMin(drawdown_pct)
  IN  <<RAbs(max_dd), RAbs(max_dd_pct)>>

\* BacktestResults(initial_capital, final_capital, total_return,
\* total_return_pct) with every other field at its default
NoChangeResults(initial) ==
  [initial_capital |-> initial, final_capital |-> initial,
   total_return |-> Zero, total_return_pct |-> Zero, trades |-> <<>>,
   total_trades |-> 0, winning_trades |-> 0, losing_trades |-> 0,
   win_rate |-> Zero, equity_curve |-> <<>>]

calculate_all_metrics(initial, curve, ts) ==
  IF curve = <<>> THEN NoChangeResults(initial)
  ELSE
    LET final_capital == curve[Len(curve)]
        total_return == RSub(final_capital, initial)
        total_return_pct ==
          IF RLt(Zero, initial) THEN RDiv(total_return, initial) ELSE Zero
        trade_metrics == calculate_trade_metrics(ts)
    IN  [initial_capital |-> initial, final_capital |-> final_capital,
         total_return |-> total_return, total_return_pct |-> total_return_pct,
         trades |-> ts, total_trades |-> trade_metrics.total_trades,
         winning_trades |-> trade_metrics.winning_trades,
         losing_trades |-> trade_metrics.losing_trades,
         win_rate |-> trade_metrics.win_rate, equity_curve |-> curve]

\* ------------------------------------------------------------------------
\* RSI strategy (src/src/strategies/rsi_strategy.py)
\* ------------------------------------------------------------------------
NaN == -1
TradeSignal(timestamp, signal_type, stop_loss, take_profit) ==
  [timestamp |-> timestamp, signal_type |-> signal_type,
   stop_loss |-> stop_loss, take_profit |-> take_profit]

\* the scan of generate_signals from position i (1-based) of the series on,
\* with the strategy's tracked position
RECURSIVE RSIScan(_, _, _, _)
\* the scan with inclusive threshold comparisons
RSIScan_Inclusive(col, strat, i, position) ==
  IF i > Len(col) THEN <<>>
  ELSE
    LET current_rsi == col[i]
        previous_rsi == col[i - 1]
    IN  IF current_rsi = NaN \/ previous_rsi = NaN
          THEN RSIScan(col, strat, i + 1, position)
        ELSE IF previous_rsi >= strat.buy_threshold
                  /\ current_rsi <= strat.buy_threshold /\ position # "long"
          THEN <<TradeSignal(i, "buy", None, None)>>
                 \o RSIScan(col, strat, i + 1, "long")
        ELSE IF previous_rsi <= strat.sell_threshold
                  /\ current_rsi >= strat.sell_threshold /\ position = "long"
          THEN <<TradeSignal(i, "sell", None, None)>>
                 \o RSIScan(col, strat, i + 1, "None")
        ELSE RSIScan(col, strat, i + 1, position)

RSIScan(col, strat, i, position) ==
  IF i > Len(col) THEN <<>>
  ELSE
    LET current_rsi == col[i]
        previous_rsi == col[i - 1]
    IN  IF current_rsi = NaN \/ previous_rsi = NaN
          THEN RSIScan(col, strat, i + 1, position)
        ELSE IF previous_rsi >= strat.buy_threshold
                  /\ current_rsi < strat.buy_threshold /\ position # "long"
          THEN <<TradeSignal(i, "buy", None, None)>>
                 \o RSIScan(col, strat, i + 1, "long")
        ELSE IF previous_rsi <= strat.sell_threshold
                  /\ current_rsi > strat.sell_threshold /\ position = "long"
          THEN <<TradeSignal(i, "sell", None, None)>>
                 \o RSIScan(col, strat, i + 1, "None")
        ELSE RSIScan(col, strat, i + 1, position)

\* RSIStrategy.generate_signals: range(1, len(data)) is positions 2..Len
generate_signals(col, strat) == RSIScan(col, strat, 2, "None")

\* ------------------------------------------------------------------------
\* Backtesting engine (src/src/backtester/engine.py)
\* ------------------------------------------------------------------------
\* signal_dict = {signal.timestamp: signal for signal in signals}: for a
\* timestamp that occurs more than once the last signal of the list wins
InSignalDict(sigs, timestamp) ==
  \E k \in 1..Len(sigs) : sigs[k].timestamp = timestamp

signal_dict(sigs, timestamp) ==
  LET ks == {k \in 1..Len(sigs) : sigs[k].timestamp = timestamp}
      last == CHOOSE k \in ks : \A j \in ks : j <= k
  IN  sigs[last]

\* CloseTrade leaving the open flag set
CloseTrade_StillOpen(t, timestamp, price, C, S) ==
  LET exit_price == RMul(price, RSub(One, S))
      exit_commission == RMul(RMul(t.quantity, exit_price), C)
      gross_pnl == RMul(t.quantity, RSub(exit_price, t.entry_price))
      net_pnl == RSub(RSub(gross_pnl, t.commission), exit_commission)
      pnl_pct == RDiv(net_pnl, RMul(t.quantity, t.entry_price))
  IN  [t EXCEPT !.exit_time = timestamp, !.exit_price = exit_price,
                !.pnl = net_pnl, !.pnl_pct = pnl_pct,
                !.commission = RAdd(t.commission, exit_commission)]

\* CloseTrade with the entry commission left out of the net pnl
CloseTrade_NoEntryCommission(t, timestamp, price, C, S) ==
  LET exit_price == RMul(price, RSub(One, S))
      exit_commission == RMul(RMul(t.quantity, exit_price), C)
      gross_pnl == RMul(t.quantity, RSub(exit_price, t.entry_price))
      net_pnl == RSub(gross_pnl, exit_commission)
      pnl_pct == RDiv(net_pnl, RMul(t.quantity, t.entry_price))
  IN  [t EXCEPT !.exit_time = timestamp, !.exit_price = exit_price,
                !.pnl = net_pnl, !.pnl_pct = pnl_pct,
                !.commission = RAdd(t.commission, exit_commission),
                !.is_open = FALSE]

\* The closing arithmetic, written three times in _simulate_trading: the
\* trade as completed at `timestamp` with the bar close `price`
CloseTrade(t, timestamp, price, C, S) ==
  LET exit_price == RMul(price, RSub(One, S))
      exit_commission == RMul(RMul(t.quantity, exit_price), C)
      gross_pnl == RMul(t.quantity, RSub(exit_price, t.entry_price))
      net_pnl == RSub(RSub(gross_pnl, t.commission), exit_commission)
      pnl_pct == RDiv(net_pnl, RMul(t.quantity, t.entry_price))
  IN  [t EXCEPT !.exit_time = timestamp, !.exit_price = exit_price,
                !.pnl = net_pnl, !.pnl_pct = pnl_pct,
                !.commission = RAdd(t.commission, exit_commission),
                !.is_open = FALSE]

\* exit_commission of a completed trade, as the simulator computed it
ExitCommission(t, C) == RMul(RMul(t.quantity, t.exit_price), C)

\* capital += net_pnl - exit_commission
CapitalAfterClose(cap, closed, C) ==
  RSub(RAdd(cap, closed.pnl), ExitCommission(closed, C))

\* The simulator's locals, as one record
Locals(cap, ct, ts, dp, ex) ==
  [capital |-> cap, current_trade |-> ct, trades |-> ts, daily_pnl |-> dp,
   exits |-> ex]

\* `if signal.signal_type == BUY and current_trade is None` branch
OpenLong(st, timestamp, current_price) ==
  IF ~should_enter_trade(parameters, st.daily_pnl, initial_capital, st.capital)
    THEN st
  ELSE
    LET stop_loss == calculate_stop_loss(parameters, current_price, "long")
        take_profit == calculate_take_profit(parameters, current_price, "long")
        position_size ==
          calculate_position_size(parameters, st.capital, current_price,
                                  stop_loss, TRUE).value
    IN  IF ~RLt(Zero, position_size) THEN st
        ELSE
          LET entry_price == RMul(current_price, RAdd(One, slippage))
              position_value == RMul(position_size, entry_price)
              commission == RMul(position_value, commission_rate)
          IN  [st EXCEPT
                 !.current_trade =
                    <<Trade(timestamp, entry_price, position_size, "long",
                            commission)>>,
                 !.capital = RSub(st.capital, commission)]

\* Closed with the accumulator restarted at each close
Closed_DailyReset(st, closed, why) ==
  Locals(CapitalAfterClose(st.capital, closed, commission_rate), <<>>,
         Append(st.trades, closed), closed.pnl, Append(st.exits, why))

\* closing by a SELL signal or by a protective exit: capital, trade list,
\* open position and risk_manager.update_daily_pnl(net_pnl)
Closed(st, closed, why) ==
  Locals(CapitalAfterClose(st.capital, closed, commission_rate), <<>>,
         Append(st.trades, closed), RAdd(st.daily_pnl, closed.pnl),
         Append(st.exits, why))

CloseOpen(st, timestamp, current_price, why) ==
  Closed(st, CloseTrade(st.current_trade[1], timestamp, current_price,
                        commission_rate, slippage), why)

\* the signal block with a BUY branch that does not look at current_trade
ProcessSignal_BuyAlways(st, timestamp, current_price) ==
  IF ~InSignalDict(signals, timestamp) THEN st
  ELSE
    LET signal == signal_dict(signals, timestamp)
    IN  IF signal.signal_type = "buy"
          THEN OpenLong(st, timestamp, current_price)
        ELSE IF signal.signal_type = "sell" /\ st.current_trade # <<>>
          THEN CloseOpen(st, timestamp, current_price, "signal")
        ELSE st

\* the signal block with a SELL branch that opens a short position when no
\* position is open
ProcessSignal_SellOpensShort(st, timestamp, current_price) ==
  IF ~InSignalDict(signals, timestamp) THEN st
  ELSE
    LET signal == signal_dict(signals, timestamp)
    IN  IF signal.signal_type = "buy" /\ st.current_trade = <<>>
          THEN OpenLong(st, timestamp, current_price)
        ELSE IF signal.signal_type = "sell" /\ st.current_trade # <<>>
          THEN CloseOpen(st, timestamp, current_price, "signal")
        ELSE IF signal.signal_type = "sell"
          THEN [st EXCEPT !.current_trade =
                            <<Trade(timestamp, current_price, One, "short",
                                    Zero)>>]
        ELSE st

\* `if timestamp in signal_dict:` block
ProcessSignal(st, timestamp, current_price) ==
  IF ~InSignalDict(signals, timestamp) THEN st
  ELSE
    LET signal == signal_dict(signals, timestamp)
    IN  IF signal.signal_type = "buy" /\ st.current_trade = <<>>
          THEN OpenLong(st, timestamp, current_price)
        ELSE IF signal.signal_type = "sell" /\ st.current_trade # <<>>
          THEN CloseOpen(st, timestamp, current_price, "signal")
        ELSE st

\* the protective check using the levels of the latest signal at or before
\* the bar
ProtectiveExit_LatestSignal(st, timestamp, current_price) ==
  IF st.current_trade = <<>> THEN st
  ELSE
    LET ks == {k \in 1..Len(signals) : signals[k].timestamp <= timestamp}
        has == ks # {}
        latest == signals[CHOOSE k \in ks : \A j \in ks : j <= k]
        reason == should_exit_trade(current_price, st.current_trade[1].side,
                                    IF has THEN latest.stop_loss ELSE None,
                                    IF has THEN latest.take_profit ELSE None)
    IN  IF reason # "" THEN CloseOpen(st, timestamp, current_price, reason)
        ELSE st

\* the protective check using the levels the risk manager computes from the
\* position's entry price
ProtectiveExit_EntryLevels(st, timestamp, current_price) ==
  IF st.current_trade = <<>> THEN st
  ELSE
    LET t == st.current_trade[1]
        reason == should_exit_trade(current_price, t.side,
                    calculate_stop_loss(parameters, t.entry_price, t.side),
                    calculate_take_profit(parameters, t.entry_price, t.side))
    IN  IF reason # "" THEN CloseOpen(st, timestamp, current_price, reason)
        ELSE st

\* `if current_trade is not None:` stop loss / take profit block
ProtectiveExit(st, timestamp, current_price) ==
  IF st.current_trade = <<>> THEN st
  ELSE
    LET has == InSignalDict(signals, timestamp)
        stop_loss == IF has THEN signal_dict(signals, timestamp).stop_loss
                     ELSE None
        take_profit == IF has THEN signal_dict(signals, timestamp).take_profit
                       ELSE None
        reason == should_exit_trade(current_price, st.current_trade[1].side,
                                    stop_loss, take_profit)
    IN  IF reason # "" THEN CloseOpen(st, timestamp, current_price, reason)
        ELSE st

\* current_equity without the unrealized PnL of the open position
CurrentEquity_CashOnly(st, current_price) == st.capital

\* current_equity of the bar
CurrentEquity(st, current_price) ==
  IF st.current_trade # <<>>
    THEN RAdd(st.capital,
              RMul(st.current_trade[1].quantity,
                   RSub(current_price, st.current_trade[1].entry_price)))
    ELSE st.capital

\* ------------------------------------------------------------------------
\* Inputs of a run
\* ------------------------------------------------------------------------
Prices == {1, 2}
BarSeries == UNION {[1..n -> Prices] : n \in 0..MaxBars}
RsiValues == {NaN, 0, 50, 100}
Rates == {Zero, <<1, 2>>}
InitialCapitals == {R(1000)}

\* RSIStrategy(symbol) with its default thresholds, and with 0/100
Strategies ==
  {[buy_threshold |-> 30, sell_threshold |-> 70],
   [buy_threshold |-> 0, sell_threshold |-> 100]}

\* RiskParameters as the callers build them
RiskParameterSets ==
  {DefaultRiskParameters,
   [DefaultRiskParameters EXCEPT !.max_position_size = <<1, 5>>,
      !.stop_loss_pct = Zero, !.take_profit_pct = Zero,
      !.max_daily_loss = Zero, !.max_drawdown = Zero],
   [DefaultRiskParameters EXCEPT !.max_position_size = <<1, 2>>,
      !.stop_loss_pct = <<1, 2>>, !.take_profit_pct = <<1, 2>>]}

\* What a bar of a hand-built signal list may carry: nothing, or a signal
SignalChoices ==
  {<<>>,
   <<"buy", None, None>>, <<"sell", None, None>>,
   <<"buy", None, R(2)>>, <<"hold", R(1), None>>}

RECURSIVE SignalList(_, _)
SignalList(choice, i) ==
  IF i > Len(choice) THEN <<>>
  ELSE IF choice[i] = <<>> THEN SignalList(choice, i + 1)
  ELSE <<TradeSignal(i, choice[i][1], choice[i][2], choice[i][3])>>
         \o SignalList(choice, i + 1)

\* ------------------------------------------------------------------------
\* The run
\* ------------------------------------------------------------------------
\* locals of _simulate_trading at its first line, RiskManager as constructed
FreshRun ==
  /\ bar = 1
  /\ capital = initial_capital
  /\ current_trade = <<>>
  /\ trades = <<>>
  /\ equity_curve = <<>>
  /\ daily_pnl = Zero
  /\ exits = <<>>
  /\ results = <<>>

\* no caller of the risk manager other than the engine
NoRiskCall ==
  /\ call = [capital |-> Zero, price |-> Zero, stop_loss_price |-> None,
             np |-> TRUE]
  /\ rpc = "idle"
  /\ outcome = <<>>
  /\ current_drawdown = Zero

\* no market data client: BacktesterEngine(api_client=None), data given
NoLibCall ==
  /\ fn = [name |-> ""]
  /\ fpc = "idle"
  /\ fret = <<>>

EmptySession ==
  [results |-> <<>>, strategy_name |-> <<>>, symbol |-> <<>>,
   use_real_data |-> <<>>]

NoChart ==
  /\ chart_args = [data |-> <<>>, trades |-> 0]
  /\ wpc = "idle"
  /\ currentCdnIndex = 0
  /\ container = "none"
  /\ fallback_chart = <<>>

NoDashboard ==
  /\ session_state = EmptySession
  /\ view = "none"
  /\ events = <<>>
  /\ NoChart

NoGenerator ==
  /\ rng = 0
  /\ generated = <<>>

NoClient ==
  /\ api_key = ""
  /\ secret_key = ""
  /\ use_synthetic = TRUE
  /\ op = [name |-> "none", interval |-> "", start_date |-> 0, end_date |-> 0]
  /\ cpc = "idle"
  /\ current_start = 0
  /\ all_data = <<>>
  /\ requests = <<>>
  /\ ret = <<>>

\* the engine, the risk parameters and the bar series of a run
RunInputs ==
  /\ data \in BarSeries
  /\ commission_rate \in Rates
  /\ slippage \in Rates
  /\ parameters \in RiskParameterSets
  /\ initial_capital \in InitialCapitals

\* run_backtest(strategy, ...) is called with an RSIStrategy; the series
\* carries the 'rsi' column that add_all_indicators put there
Init ==
  /\ RunInputs
  /\ entry = "run_backtest"
  /\ rsi \in [1..Len(data) -> RsiValues]
  /\ strategy \in Strategies
  /\ signals = <<>>
  /\ pc = "start"
  /\ FreshRun
  /\ NoRiskCall
  /\ NoClient
  /\ NoLibCall
  /\ NoDashboard
  /\ NoGenerator

\* _simulate_trading(data, signals, initial_capital, risk_manager) is
\* called with a hand-built signal list
InitSimulate ==
  /\ RunInputs
  /\ entry = "_simulate_trading"
  /\ rsi = <<>>
  /\ strategy = [buy_threshold |-> 30, sell_threshold |-> 70]
  /\ \E choice \in [1..Len(data) -> SignalChoices] :
       signals = SignalList(choice, 1)
  /\ pc = "loop"
  /\ FreshRun
  /\ NoRiskCall
  /\ NoClient
  /\ NoLibCall
  /\ NoDashboard
  /\ NoGenerator

inputs == <<entry, data, rsi, strategy, commission_rate, slippage,
            parameters, initial_capital>>

\* run_backtest up to the call of _simulate_trading
RunBacktest ==
  /\ pc = "start"
  /\ IF data = <<>>
       THEN /\ pc' = "raised"
            /\ UNCHANGED <<signals, results>>
       ELSE /\ signals' = generate_signals(rsi, strategy)
            /\ IF signals' = <<>>
                 THEN /\ results' = <<NoChangeResults(initial_capital)>>
                      /\ pc' = "done"
                 ELSE /\ results' = results
                      /\ pc' = "loop"
  /\ UNCHANGED <<inputs, bar, capital, current_trade, trades, equity_curve,
                 daily_pnl, exits, riskVars, clientVars, libVars, dashVars,
                 genVars>>

\* one iteration of `for timestamp, row in data.iterrows()`
SimulateBar ==
  /\ pc = "loop"
  /\ bar <= Len(data)
  /\ \E st2 \in {ProtectiveExit(
                    ProcessSignal(
                      Locals(capital, current_trade, trades, daily_pnl, exits),
                      bar, R(data[bar])),
                    bar, R(data[bar]))} :
       /\ capital' = st2.capital
       /\ current_trade' = st2.current_trade
       /\ trades' = st2.trades
       /\ daily_pnl' = st2.daily_pnl
       /\ exits' = st2.exits
       /\ equity_curve' = Append(equity_curve, CurrentEquity(st2, R(data[bar])))
  /\ bar' = bar + 1
  /\ UNCHANGED <<inputs, signals, pc, results, riskVars, clientVars, libVars,
                 dashVars, genVars>>

\* after the loop: the forced close, the equity series and the metrics
FinishSimulation ==
  /\ pc = "loop"
  /\ bar > Len(data)
  /\ IF current_trade # <<>>
       THEN \E closed \in {CloseTrade(current_trade[1], Len(data),
                                      R(data[Len(data)]), commission_rate,
                                      slippage)} :
              /\ trades' = Append(trades, closed)
              /\ capital' = CapitalAfterClose(capital, closed, commission_rate)
              /\ exits' = Append(exits, "forced")
              /\ current_trade' = current_trade
       ELSE UNCHANGED <<trades, capital, exits, current_trade>>
  /\ results' = <<calculate_all_metrics(initial_capital, equity_curve, trades')>>
  /\ pc' = "done"
  /\ UNCHANGED <<inputs, signals, bar, equity_curve, daily_pnl, riskVars,
                 clientVars, libVars, dashVars, genVars>>

Next == RunBacktest \/ SimulateBar \/ FinishSimulation

Spec == Init /\ [][Next]_vars

NextSimulate == SimulateBar \/ FinishSimulation

SpecSimulate == InitSimulate /\ [][NextSimulate]_vars

\* ------------------------------------------------------------------------
\* Properties of the engine
\* ------------------------------------------------------------------------
Done == pc = "done"
Res == results[1]

\* C1: the returned final_capital is initial_capital plus the sum of the
\* pnl of all trades of the returned trade list.
C1_FinalCapitalIsInitialPlusPnl ==
  Done => Res.final_capital = RAdd(initial_capital, SumPnl(Res.trades))

TradeIsComplete(t) ==
  /\ ~t.is_open
  /\ t.exit_time # 0
  /\ ~IsNone(t.exit_price)
  /\ ~IsNone(t.pnl)

\* C2: no trade of a completed backtest is left open (each has is_open
\* false, an exit time, an exit price and a pnl), and when a position was
\* still open after the last bar, the final trade of the list exits at the
\* last bar's timestamp.
C2_NoTradeLeftOpen ==
  Done =>
    /\ \A k \in 1..Len(Res.trades) : TradeIsComplete(Res.trades[k])
    /\ current_trade # <<>> =>
         /\ Res.trades # <<>>
         /\ Res.trades[Len(Res.trades)].exit_time = Len(data)
         /\ Res.trades[Len(Res.trades)].entry_time = current_trade[1].entry_time

C2_Witness ==
  /\ Done
  /\ current_trade # <<>>
  /\ Len(Res.trades) >= 2
  /\ exits[Len(exits)] = "forced"

\* completed BUY->SELL cycles of a signal list: the SELLs that follow an
\* unmatched BUY
RECURSIVE Cycles(_, _)
Cycles(sigs, long) ==
  IF sigs = <<>> THEN 0
  ELSE IF sigs[1].signal_type = "buy" THEN Cycles(Tail(sigs), TRUE)
  ELSE IF sigs[1].signal_type = "sell" /\ long THEN 1 + Cycles(Tail(sigs), FALSE)
  ELSE Cycles(Tail(sigs), long)

CompletedCycles(sigs) == Cycles(sigs, FALSE)

EndsWithBuy(sigs) ==
  sigs # <<>> /\ sigs[Len(sigs)].signal_type = "buy"

StrategyRunDone ==
  Done /\ entry = "run_backtest" /\ parameters = DefaultRiskParameters

RoundTripHolds(t, C, S) ==
  LET E == R(data[t.entry_time])
      X == R(data[t.exit_time])
      Q == t.quantity
      fillE == RMul(E, RAdd(One, S))
      fillX == RMul(X, RSub(One, S))
      entry_commission == RMul(RMul(Q, fillE), C)
      exit_commission == RMul(RMul(Q, fillX), C)
      net == RSub(RSub(RMul(Q, RSub(fillX, fillE)), entry_commission),
                  exit_commission)
  IN  /\ t.pnl = net
      /\ t.pnl_pct = RDiv(net, RMul(Q, fillE))
      /\ t.commission = RAdd(entry_commission, exit_commission)

\* C4: every closed trade (closed by a SELL signal, a protective exit or
\* the forced close) records net pnl Q*(X*(1-S) - E*(1+S)) - Q*E*(1+S)*C -
\* Q*X*(1-S)*C, pnl_pct = net pnl / (Q*E*(1+S)) and commission = entry
\* commission + exit commission.
C4_RoundTripPnl ==
  \A k \in 1..Len(trades) : RoundTripHolds(trades[k], commission_rate, slippage)

C4_Witness ==
  /\ Done
  /\ RLt(Zero, commission_rate)
  /\ RLt(Zero, slippage)
  /\ \E j, k \in 1..Len(trades) :
       /\ exits[j] = "take_profit"
       /\ exits[k] = "forced"
       /\ data[trades[k].entry_time] # data[trades[k].exit_time]

\* C5: when the strategy returns no signals (as RSIStrategy with thresholds
\* 0 and 100 always does), run_backtest returns total_trades = 0, no
\* trades, final_capital = initial_capital and total_return_pct = 0, and
\* the simulation loop has not run.
C5_NoSignalsNoChange ==
  (Done /\ entry = "run_backtest"
     /\ (signals = <<>> \/ strategy = [buy_threshold |-> 0, sell_threshold |-> 100]))
  => /\ signals = <<>>
     /\ Res.total_trades = 0
     /\ Res.trades = <<>>
     /\ Res.final_capital = initial_capital
     /\ Res.total_return_pct = Zero
     /\ bar = 1
     /\ equity_curve = <<>>

C5_Witness ==
  /\ Done
  /\ entry = "run_backtest"
  /\ strategy = [buy_threshold |-> 0, sell_threshold |-> 100]
  /\ \E i \in 2..Len(rsi) : rsi[i] = 0 /\ rsi[i - 1] = 100
  /\ \E i \in 2..Len(rsi) : rsi[i] = 100 /\ rsi[i - 1] = 0

Protective == {"stop_loss", "take_profit"}

\* the trade as it was while open: the entry commission is quantity *
\* entry_price * commission rate
AsOpened(t, C) ==
  Trade(t.entry_time, t.entry_price, t.quantity, t.side,
        RMul(RMul(t.quantity, t.entry_price), C))

\* C18: a protective exit happens only on a bar that carries a signal, and
\* on the stop or target attached to that signal (stop at or above the
\* close, target at or below it); the trade it closes is completed by the
\* arithmetic of a SELL-signal exit.
C18_ProtectiveExitOnlyOnSignalBar ==
  \A k \in 1..Len(trades) :
    exits[k] \in Protective =>
      /\ InSignalDict(signals, trades[k].exit_time)
      /\ exits[k] = "stop_loss" =>
           /\ ~IsNone(signal_dict(signals, trades[k].exit_time).stop_loss)
           /\ RLe(R(data[trades[k].exit_time]),
                  signal_dict(signals, trades[k].exit_time).stop_loss)
      /\ exits[k] = "take_profit" =>
           /\ ~IsNone(signal_dict(signals, trades[k].exit_time).take_profit)
           /\ RLe(signal_dict(signals, trades[k].exit_time).take_profit,
                  R(data[trades[k].exit_time]))
      /\ trades[k] = CloseTrade(AsOpened(trades[k], commission_rate),
                                trades[k].exit_time,
                                R(data[trades[k].exit_time]),
                                commission_rate, slippage)

\* a stop-loss exit, and a position that stayed open over a bar without a
\* signal
C18_Witness ==
  /\ Done
  /\ \E k \in 1..Len(trades) : exits[k] = "stop_loss"
  /\ \E k \in 1..Len(trades) :
       \E b \in (trades[k].entry_time + 1)..(trades[k].exit_time - 1) :
         ~InSignalDict(signals, b)

\* signals as the built-in strategies build them: TradeSignal without
\* stop_loss and take_profit
NoLevelsAttached(sigs) ==
  \A k \in 1..Len(sigs) : IsNone(sigs[k].stop_loss) /\ IsNone(sigs[k].take_profit)

IsSignalAt(sigs, timestamp, type) ==
  InSignalDict(sigs, timestamp) /\ signal_dict(sigs, timestamp).signal_type = type

\* C19: with the signals of the built-in strategies, whatever stop_loss_pct
\* and take_profit_pct are, no trade is closed by a stop-loss or
\* take-profit exit: every trade is entered on a BUY bar and exits on a
\* SELL bar or on the last bar.
C19_NoProtectiveExitForStrategySignals ==
  NoLevelsAttached(signals) =>
    \A k \in 1..Len(trades) :
      /\ exits[k] \in {"signal", "forced"}
      /\ IsSignalAt(signals, trades[k].entry_time, "buy")
      /\ \/ IsSignalAt(signals, trades[k].exit_time, "sell")
         \/ trades[k].exit_time = Len(data)

\* a position held through a bar whose close is at or below the stop the
\* risk manager computes from stop_loss_pct
C19_Witness ==
  /\ Done
  /\ NoLevelsAttached(signals)
  /\ ~IsNone(parameters.stop_loss_pct)
  /\ RLt(Zero, parameters.stop_loss_pct)
  /\ \E k \in 1..Len(trades) :
       \E b \in (trades[k].entry_time + 1)..(trades[k].exit_time - 1) :
         RLe(R(data[b]),
             calculate_stop_loss(parameters, trades[k].entry_price, "long"))

\* C20: the returned final_capital is the simulator's capital at the end of
\* the run, after the forced close if there was one; total_return is that
\* capital less the initial capital, and the last equity-curve point is
\* that capital.
C20_FinalCapitalIsFlatCapital ==
  Done =>
    /\ Res.final_capital = capital
    /\ Res.total_return = RSub(capital, initial_capital)
    /\ equity_curve # <<>> => equity_curve[Len(equity_curve)] = capital

\* the trades that update_daily_pnl was called for: those closed by a
\* signal or by a protective exit
RECURSIVE SumPnlNotForced(_, _)
SumPnlNotForced(ts, ex) ==
  IF ts = <<>> THEN Zero
  ELSE RAdd(IF ex[1] = "forced" THEN Zero ELSE ts[1].pnl,
            SumPnlNotForced(Tail(ts), Tail(ex)))

DailyPnlIsRunningSum == daily_pnl = SumPnlNotForced(trades, exits)

\* no position is open and the entry gate refuses: the state in which a
\* BUY signal is rejected
GateClosed ==
  /\ entry = "_simulate_trading"
  /\ current_trade = <<>>
  /\ ~should_enter_trade(parameters, daily_pnl, initial_capital, capital)

GateStaysClosed ==
  GateClosed => /\ GateClosed'
                /\ trades' = trades
                /\ capital' = capital

\* C21: the daily PnL accumulator is always the sum of the net PnL of the
\* trades closed by a signal or a protective exit (it is never reset), and
\* from a state in which the entry gate rejects a BUY the gate rejects in
\* every later state of the backtest: no further trade is opened.
C21_GatesCumulativeAndAbsorbing ==
  []DailyPnlIsRunningSum /\ [][GateStaysClosed]_vars

\* a trade closed at a loss before the last bar, then a BUY signal on the
\* last bar, rejected by the gate: the run ends with that single trade
C21_Witness ==
  /\ Done
  /\ GateClosed
  /\ Len(trades) = 1
  /\ trades[1].exit_time < Len(data)
  /\ daily_pnl = trades[1].pnl
  /\ RLt(daily_pnl, Zero)
  /\ IsSignalAt(signals, Len(data), "buy")

\* entry and exit times along a trade list
TradesInOrder(ts) ==
  \A k \in 1..Len(ts) :
    /\ ts[k].exit_time >= ts[k].entry_time
    /\ k > 1 => ts[k].entry_time >= ts[k - 1].exit_time

TradesChronological ==
  /\ TradesInOrder(trades)
  /\ Done => TradesInOrder(Res.trades)
  /\ (pc = "loop" /\ current_trade # <<>> /\ trades # <<>>) =>
       current_trade[1].entry_time >= trades[Len(trades)].exit_time

\* while a position is open a bar either keeps that position or closes it
OpenPositionKeptOrClosed ==
  (pc = "loop" /\ current_trade # <<>>) =>
    \/ current_trade' = current_trade
    \/ current_trade' = <<>> /\ Len(trades') = Len(trades) + 1

\* C23: at most one position is open at any time: a bar reached with a
\* position open (a BUY bar included) opens nothing; the trades of the
\* result are in chronological order, each exits at or after its entry and
\* enters at or after the previous trade's exit.
C23_OnePositionTradesChronological ==
  []TradesChronological /\ [][OpenPositionKeptOrClosed]_vars

\* a second trade entered after the first one's exit, and a BUY signal on a
\* later bar while that second trade is still open
C23_Witness ==
  /\ Done
  /\ Len(Res.trades) = 2
  /\ Res.trades[2].entry_time > Res.trades[1].exit_time
  /\ \E b \in (Res.trades[2].entry_time + 1)..Len(data) :
       IsSignalAt(signals, b, "buy")

\* the points so far are those of the bars processed so far, and the
\* returned series has one point per bar of the input
OnePointPerBar ==
  /\ pc = "loop" => Len(equity_curve) = bar - 1
  /\ Done => /\ Len(Res.equity_curve) = Len(data)
             /\ Res.equity_curve = equity_curve

\* the point a bar appends, from the state the bar leaves behind
PointOfBar ==
  (pc = "loop" /\ bar <= Len(data)) =>
    /\ Len(equity_curve') = bar
    /\ SubSeq(equity_curve', 1, bar - 1) = equity_curve
    /\ equity_curve'[bar] =
         IF current_trade' # <<>>
           THEN RAdd(capital',
                     RMul(current_trade'[1].quantity,
                          RSub(R(data[bar]), current_trade'[1].entry_price)))
           ELSE capital'

\* C24: the equity curve has one point per input bar, at that bar's
\* position in the index; the point is the capital after the bar's entry
\* and exit processing, plus quantity * (close - entry price) of the
\* position still open at the end of the bar, if there is one.
C24_EquityPointPerBar == []OnePointPerBar /\ [][PointOfBar]_vars

\* a position held over a bar whose close differs from the entry price:
\* that bar's point is not the capital
C24_Witness ==
  /\ Done
  /\ Len(Res.equity_curve) = 3
  /\ Len(trades) = 1
  /\ trades[1].entry_time = 1
  /\ trades[1].exit_time = 3
  /\ exits[1] = "signal"
  /\ Res.equity_curve[2] =
       RAdd(RSub(initial_capital, RMul(RMul(trades[1].quantity,
                                            trades[1].entry_price),
                                       commission_rate)),
            RMul(trades[1].quantity,
                 RSub(R(data[2]), trades[1].entry_price)))
  /\ Res.equity_curve[2] # Res.equity_curve[1]

AllTradesLong ==
  /\ \A k \in 1..Len(trades) : trades[k].side = "long"
  /\ current_trade # <<>> => current_trade[1].side = "long"
  /\ Done => \A k \in 1..Len(Res.trades) : Res.trades[k].side = "long"

\* a bar with a SELL signal, reached with no position open
SellWhileFlat ==
  /\ pc = "loop"
  /\ bar <= Len(data)
  /\ current_trade = <<>>
  /\ IsSignalAt(signals, bar, "sell")

SellWhileFlatIgnored ==
  SellWhileFlat => /\ capital' = capital
                   /\ current_trade' = <<>>
                   /\ trades' = trades

\* C27: every trade of the engine has side long, and a SELL signal on a bar
\* reached with no position open changes neither capital, nor the open
\* position, nor the trade list: SELL signals that a strategy means as
\* short entries and short exits open no short position.
C27_LongOnlySellWhileFlatIgnored ==
  []AllTradesLong /\ [][SellWhileFlatIgnored]_vars

\* SELL, SELL on the first two bars (a short entry and a short exit of
\* EMAStrategy) with no trade, then a BUY that opens the only trade
C27_Witness ==
  /\ Done
  /\ Len(data) = 3
  /\ IsSignalAt(signals, 1, "sell")
  /\ IsSignalAt(signals, 2, "sell")
  /\ IsSignalAt(signals, 3, "buy")
  /\ Len(Res.trades) = 1
  /\ Res.trades[1].entry_time = 3
  /\ Res.trades[1].side = "long"

\* ------------------------------------------------------------------------
\* The risk manager called on its own
\* ------------------------------------------------------------------------
\* no backtest under way
NoRun ==
  /\ entry = "none"
  /\ data = <<>>
  /\ rsi = <<>>
  /\ strategy = [buy_threshold |-> 30, sell_threshold |-> 70]
  /\ signals = <<>>
  /\ commission_rate = Zero
  /\ slippage = Zero
  /\ initial_capital = Zero
  /\ pc = "idle"
  /\ bar = 1
  /\ capital = Zero
  /\ current_trade = <<>>
  /\ trades = <<>>
  /\ equity_curve = <<>>
  /\ daily_pnl = Zero
  /\ exits = <<>>
  /\ results = <<>>

CallCapitals == {R(1), R(1000)}
CallPrices == {<<1, 2>>, R(1), R(2)}
StopLossPrices == {None, Zero, <<1, 2>>, R(1), R(2)}

\* RiskManager(parameters), then either calculate_stop_loss followed by
\* calculate_position_size with its result (as the engine does), or
\* calculate_position_size with a stop-loss price of the caller's; the
\* numbers are Python floats or numpy float64 (np)
InitRisk ==
  /\ parameters \in RiskParameterSets
  /\ \E c \in CallCapitals, p \in CallPrices, n \in BOOLEAN :
       \/ /\ rpc = "calculate_stop_loss"
          /\ call = [capital |-> c, price |-> p, stop_loss_price |-> None,
                     np |-> n]
       \/ /\ rpc = "calculate_position_size"
          /\ \E sl \in StopLossPrices :
               call = [capital |-> c, price |-> p, stop_loss_price |-> sl,
                       np |-> n]
  /\ outcome = <<>>
  /\ current_drawdown = Zero
  /\ NoRun
  /\ NoClient
  /\ NoLibCall
  /\ NoDashboard
  /\ NoGenerator

CalculateStopLoss ==
  /\ rpc = "calculate_stop_loss"
  /\ call' = [call EXCEPT
                !.stop_loss_price = calculate_stop_loss(parameters, call.price, "long")]
  /\ rpc' = "calculate_position_size"
  /\ UNCHANGED <<outcome, current_drawdown, engineVars, clientVars, libVars,
                 dashVars, genVars>>

CalculatePositionSize ==
  /\ rpc = "calculate_position_size"
  /\ \E r \in {calculate_position_size(parameters, call.capital, call.price,
                                       call.stop_loss_price, call.np)} :
       /\ outcome' = <<r>>
       /\ rpc' = IF r.raised THEN "raised" ELSE "returned"
  /\ UNCHANGED <<call, current_drawdown, engineVars, clientVars, libVars,
                 dashVars, genVars>>

NextRisk == CalculateStopLoss \/ CalculatePositionSize

SpecRisk == InitRisk /\ [][NextRisk]_vars

PositionSizeBound ==
  RDiv(RMul(call.capital, parameters.max_position_size), call.price)

\* C6: for capital > 0 and price > 0 and any stop-loss price, also one
\* equal to the entry price, calculate_position_size returns a size s with
\* 0 <= s <= capital * max_position_size / price, and exactly that bound
\* when no stop-loss price is supplied.
C6_PositionSizeBounded ==
  rpc \in {"returned", "raised"} =>
    /\ ~outcome[1].raised
    /\ RLe(Zero, outcome[1].value)
    /\ RLe(outcome[1].value, PositionSizeBound)
    /\ IsNone(call.stop_loss_price) => outcome[1].value = PositionSizeBound

\* ------------------------------------------------------------------------
\* The entry gate of the risk manager, called on its own
\* ------------------------------------------------------------------------
GateParameterSets ==
  {[DefaultRiskParameters EXCEPT !.max_daily_loss = l, !.max_drawdown = m] :
     l \in {None, Zero, R(1)}, m \in {None, Zero, <<1, 2>>}}

PnlValues == {R(-1), R(1)}
GateCapitals == {R(1), R(1000)}
GateEquities == {Zero, <<1, 2>>, R(1), R(1000), R(2000)}

\* RiskManager(parameters): daily_pnl = 0.0, current_drawdown = 0.0
InitGate ==
  /\ parameters \in GateParameterSets
  /\ NoRiskCall
  /\ NoRun
  /\ NoClient
  /\ NoLibCall
  /\ NoDashboard
  /\ NoGenerator

UpdateDailyPnl ==
  /\ \E pnl \in PnlValues :
       /\ RLe(RAbs(RAdd(daily_pnl, pnl)), R(MaxDailyPnl))
       /\ daily_pnl' = RAdd(daily_pnl, pnl)
  /\ rpc' = "idle"
  /\ UNCHANGED <<call, outcome, current_drawdown>>
  /\ UNCHANGED <<entry, data, rsi, strategy, signals, commission_rate,
                 slippage, parameters, initial_capital, pc, bar, capital,
                 current_trade, trades, equity_curve, exits, results>>
  /\ UNCHANGED <<clientVars, libVars, dashVars, genVars>>

ResetDailyPnl ==
  /\ daily_pnl # Zero
  /\ daily_pnl' = Zero
  /\ rpc' = "idle"
  /\ UNCHANGED <<call, outcome, current_drawdown>>
  /\ UNCHANGED <<entry, data, rsi, strategy, signals, commission_rate,
                 slippage, parameters, initial_capital, pc, bar, capital,
                 current_trade, trades, equity_curve, exits, results>>
  /\ UNCHANGED <<clientVars, libVars, dashVars, genVars>>

ShouldEnterTrade ==
  /\ \E cap \in GateCapitals, eq \in GateEquities :
       /\ call' = [capital |-> cap, current_equity |-> eq]
       /\ outcome' = <<Returned(should_enter_trade(parameters, daily_pnl,
                                                   cap, eq))>>
  /\ rpc' = "returned"
  /\ UNCHANGED <<current_drawdown, engineVars, clientVars, libVars, dashVars,
                 genVars>>

NextGate == UpdateDailyPnl \/ ResetDailyPnl \/ ShouldEnterTrade

SpecGate == InitGate /\ [][NextGate]_vars

DailyLossExceeded ==
  /\ ~IsNone(parameters.max_daily_loss)
  /\ RLt(daily_pnl, RSub(Zero, parameters.max_daily_loss))

DrawdownExceeded(c) ==
  /\ ~IsNone(parameters.max_drawdown)
  /\ RLt(parameters.max_drawdown,
         RDiv(RSub(c.capital, c.current_equity), c.capital))

GateCallReturns ==
  rpc' = "returned" =>
    /\ ~outcome'[1].raised
    /\ outcome'[1].value = ~(DailyLossExceeded \/ DrawdownExceeded(call'))
    /\ UNCHANGED <<daily_pnl, current_drawdown, parameters>>

\* C22: should_enter_trade returns false exactly when the daily loss limit
\* is configured and the daily PnL is below its negative, or the drawdown
\* limit is configured and (capital - current_equity)/capital is above it;
\* it returns true otherwise and leaves daily PnL, drawdown value and
\* parameters as they were.
C22_EntryGateAnswerAndFrame == [][GateCallReturns]_vars

\* a call refused by the drawdown limit alone, on a manager whose daily PnL
\* has been updated
C22_Witness ==
  /\ rpc = "returned"
  /\ outcome[1].value = FALSE
  /\ ~DailyLossExceeded
  /\ ~IsNone(parameters.max_daily_loss)
  /\ daily_pnl = R(-1)
  /\ DrawdownExceeded(call)

\* ------------------------------------------------------------------------
\* Market data client (src/src/api/bingx_client.py)
\* ------------------------------------------------------------------------
\* key strings: none, the placeholders the scripts and the dashboard use,
\* and a real key
KeyValues == {"", "demo", "tu_api_key_aqui", "key"}

\* `api_key or settings.bingx_api_key`
Resolve(arg, setting) == IF arg = "" THEN setting ELSE arg

\* the use_synthetic field at the end of __init__
ConstructedSynthetic(ak, sk, flag) ==
  IF ak = "" \/ sk = "" \/ ak = "demo" THEN TRUE ELSE flag

\* date strings: a day number for a well-formed YYYY-MM-DD, or Malformed
Malformed == -1
Dates == {Malformed, 0, 1, 2}
Intervals == {"1h", "1d"}

\* int(datetime.strptime(date, '%Y-%m-%d').timestamp() * 1000), in ticks
Timestamp(date) == date * TicksPerDay

\* an HTTP request as _make_request sends it
MakeRequest(endpoint, params, signed) ==
  IF signed
    THEN [endpoint |-> endpoint,
          params |-> params \cup {"timestamp", "signature"},
          headers |-> {"X-BX-APIKEY", "Content-Type"},
          signed_over |-> params \cup {"timestamp"}]
    ELSE [endpoint |-> endpoint, params |-> params,
          headers |-> {"Content-Type"}, signed_over |-> {}]

\* the request of get_klines: `if start_time:` and `if end_time:` leave a
\* zero bound out; _make_request is called without `signed`
KlinesRequest(start_time, end_time) ==
  MakeRequest("/openApi/swap/v3/quote/klines",
              {"symbol", "interval", "limit"}
                \cup (IF start_time # 0 THEN {"startTime"} ELSE {})
                \cup (IF end_time # 0 THEN {"endTime"} ELSE {}),
              FALSE)

\* the request of get_symbols
SymbolsRequest == MakeRequest("/openApi/swap/v2/quote/contracts", {}, FALSE)

\* candles the exchange may send: [ts, val], val standing for the row's
\* (open, high, low, close, volume)
Candles == [ts : {1, 2}, val : {1, 2}]
Pages == {<<>>} \cup {<<c>> : c \in Candles}
           \cup {<<c, e>> : c \in Candles, e \in Candles}

\* pd.concat(all_data)
RECURSIVE Concat(_)
Concat(pages) ==
  IF pages = <<>> THEN <<>> ELSE pages[1] \o Concat(Tail(pages))

\* DataFrame.drop_duplicates(): a row is dropped when an earlier row has
\* the same column values; the index is not compared
DropDuplicates(rows) ==
  LET keep == {k \in 1..Len(rows) : \A j \in 1..(k - 1) : rows[j].val # rows[k].val}
      F[k \in 0..Len(rows)] ==
        IF k = 0 THEN <<>>
        ELSE IF k \in keep THEN Append(F[k - 1], rows[k]) ELSE F[k - 1]
  IN  F[Len(rows)]

\* DataFrame.sort_index(): rows in ascending index order (rows of equal
\* index are kept in their order)
RECURSIVE SortIndex(_)
SortIndex(rows) ==
  IF rows = <<>> THEN <<>>
  ELSE
    LET m == CHOOSE k \in 1..Len(rows) :
               \A j \in 1..Len(rows) :
                 rows[k].ts < rows[j].ts \/ (rows[k].ts = rows[j].ts /\ k <= j)
        rest == [j \in 1..(Len(rows) - 1) |-> IF j < m THEN rows[j] ELSE rows[j + 1]]
    IN  <<rows[m]>> \o SortIndex(rest)

\* the value a data call returns
Series(source, rows, n) == [source |-> source, rows |-> rows, n |-> n]

\* the last _generate_synthetic_data of the class (the one in effect):
\* strptime of both dates, then a bar index over the range, or 100 periods
\* when the range gives fewer than 2 bars
SyntheticRaises(o) == o.start_date = Malformed \/ o.end_date = Malformed

SyntheticLen(o) ==
  LET per_day == IF o.interval = "1d" THEN 1 ELSE 24
      n == IF o.end_date >= o.start_date
             THEN (o.end_date - o.start_date) * per_day + 1 ELSE 0
  IN  IF n < 2 THEN 100 ELSE n

\* _fetch_real_data after its loop
RealSeries(pages) ==
  LET df == SortIndex(DropDuplicates(Concat(pages)))
  IN  Series("real", df, Len(df))

\* get_historical_data ends in the synthetic generator: in synthetic mode,
\* or in the except branch after a failed real fetch
EndSynthetic ==
  IF SyntheticRaises(op)
    THEN /\ cpc' = "raised"
         /\ ret' = ret
    ELSE /\ cpc' = "returned"
         /\ ret' = <<Series("synthetic", <<>>, SyntheticLen(op))>>

\* the code of _fetch_real_data after the loop, with the pages received
EndFetch(pages) ==
  IF pages = <<>>
    THEN EndSynthetic             \* ValueError, caught by get_historical_data
    ELSE /\ cpc' = "returned"
         /\ ret' = <<RealSeries(pages)>>

Ops ==
  {[name |-> "get_symbols", interval |-> "", start_date |-> 0, end_date |-> 0]}
    \cup [name : {"get_historical_data"}, interval : Intervals,
          start_date : Dates, end_date : Dates]

\* BingXClient(api_key, secret_key, use_synthetic) with the settings of the
\* environment, and the call made on it
InitClient ==
  /\ \E ak \in KeyValues, sk \in KeyValues, ak_env \in KeyValues,
        sk_env \in KeyValues, flag \in BOOLEAN :
       /\ api_key = Resolve(ak, ak_env)
       /\ secret_key = Resolve(sk, sk_env)
       /\ use_synthetic = ConstructedSynthetic(api_key, secret_key, flag)
  /\ op \in Ops
  /\ cpc = "idle"
  /\ current_start = 0
  /\ all_data = <<>>
  /\ requests = <<>>
  /\ ret = <<>>
  /\ parameters = DefaultRiskParameters
  /\ NoRun
  /\ NoRiskCall
  /\ NoLibCall
  /\ NoDashboard
  /\ NoGenerator

Responses == {"ok", "transport_error", "api_error"}

GetSymbols ==
  /\ cpc = "idle"
  /\ op.name = "get_symbols"
  /\ requests' = Append(requests, SymbolsRequest)
  /\ \E response \in Responses :
       IF response = "ok"
         THEN /\ cpc' = "returned"
              /\ ret' = <<Series("symbols", <<>>, 0)>>
         ELSE /\ cpc' = "raised"
              /\ ret' = ret
  /\ UNCHANGED <<api_key, secret_key, use_synthetic, op, current_start,
                 all_data, engineVars, riskVars, libVars, dashVars, genVars>>

\* get_historical_data up to the first pass of the loop of _fetch_real_data
GetHistoricalData ==
  /\ cpc = "idle"
  /\ op.name = "get_historical_data"
  /\ IF use_synthetic \/ SyntheticRaises(op)
       THEN /\ EndSynthetic
            /\ UNCHANGED current_start
       ELSE /\ current_start' = Timestamp(op.start_date)
            /\ cpc' = "fetching"
            /\ ret' = ret
  /\ UNCHANGED <<api_key, secret_key, use_synthetic, op, all_data, requests,
                 engineVars, riskVars, libVars, dashVars, genVars>>

\* one pass of `while current_start < end_timestamp`: the get_klines call
\* and what follows from its response
FetchPage ==
  /\ cpc = "fetching"
  /\ current_start < Timestamp(op.end_date)
  /\ Len(all_data) < MaxPages
  /\ requests' = Append(requests,
                        KlinesRequest(current_start, Timestamp(op.end_date)))
  /\ \E response \in Responses, page \in Pages :
       IF response # "ok"
         THEN /\ page = <<>>
              /\ EndSynthetic
              /\ UNCHANGED <<all_data, current_start>>
       ELSE IF page = <<>>
         THEN /\ EndFetch(all_data)
              /\ UNCHANGED <<all_data, current_start>>
         ELSE /\ all_data' = Append(all_data, page)
              /\ current_start' = page[Len(page)].ts + 1
              /\ UNCHANGED <<cpc, ret>>
  /\ UNCHANGED <<api_key, secret_key, use_synthetic, op, engineVars, riskVars,
                 libVars, dashVars, genVars>>

\* the loop condition fails: the code after the loop
LeaveLoop ==
  /\ cpc = "fetching"
  /\ current_start >= Timestamp(op.end_date)
  /\ EndFetch(all_data)
  /\ UNCHANGED <<api_key, secret_key, use_synthetic, op, current_start,
                 all_data, requests, engineVars, riskVars, libVars, dashVars,
                 genVars>>

NextClient == GetSymbols \/ GetHistoricalData \/ FetchPage \/ LeaveLoop

SpecClient == InitClient /\ [][NextClient]_vars

\* ------------------------------------------------------------------------
\* Properties of the market data client
\* ------------------------------------------------------------------------
\* C7: get_historical_data never propagates a failure to its caller,
\* whatever the dates (malformed ones included) and whatever the real fetch
\* does: the call always ends by returning a series.
C7_NeverPropagates ==
  op.name = "get_historical_data" => cpc # "raised"

\* credential values that are no usable credential: the placeholder of the
\* demo scripts and the one the dashboard tests for
Placeholders == {"demo", "tu_api_key_aqui"}

Unusable(k) == k = "" \/ k \in Placeholders

\* C8: when the resolved API key or secret key is empty or a placeholder,
\* synthetic mode is active whatever flag was passed, and
\* get_historical_data issues no request to the exchange.
C8_PlaceholderForcesSynthetic ==
  (Unusable(api_key) \/ Unusable(secret_key)) =>
    /\ use_synthetic
    /\ op.name = "get_historical_data" => requests = <<>>

IsSigned(req) ==
  /\ {"timestamp", "signature"} \subseteq req.params
  /\ req.signed_over = req.params \ {"signature"}
  /\ "X-BX-APIKEY" \in req.headers

IsUnsigned(req) ==
  /\ req.params \cap {"timestamp", "signature"} = {}
  /\ "X-BX-APIKEY" \notin req.headers

\* C9: every kline request sent carries a timestamp, a signature over all
\* the other parameters and the X-BX-APIKEY header; the symbol-listing
\* request carries no authentication.
C9_KlinesSignedSymbolsUnsigned ==
  \A k \in 1..Len(requests) :
    IF requests[k].endpoint = "/openApi/swap/v3/quote/klines"
      THEN IsSigned(requests[k])
      ELSE IsUnsigned(requests[k])

Index(rows) == [k \in 1..Len(rows) |-> rows[k].ts]

Received == {Concat(all_data)[k].ts : k \in 1..Len(Concat(all_data))}

\* C10: the series the real fetch returns has a strictly increasing
\* timestamp index holding exactly the distinct timestamps received in the
\* pages.
C10_IndexStrictlyIncreasingAndComplete ==
  (cpc = "returned" /\ ret # <<>> /\ ret[1].source = "real") =>
    /\ \A k \in 1..(Len(ret[1].rows) - 1) :
         Index(ret[1].rows)[k] < Index(ret[1].rows)[k + 1]
    /\ {Index(ret[1].rows)[k] : k \in 1..Len(ret[1].rows)} = Received

\* a pass of the loop that received a page and goes on to the next pass
PageReceived ==
  /\ cpc = "fetching"
  /\ cpc' = "fetching"
  /\ Len(all_data') = Len(all_data) + 1

WindowStartAdvanced ==
  LET page == all_data'[Len(all_data')]
  IN  /\ current_start' = page[Len(page)].ts + 1
      /\ current_start' > current_start

\* C30: every pass of the pagination loop either stops (empty page, or
\* window start at or past the end) or moves the window start to one
\* millisecond past the last candle received, strictly beyond the previous
\* window start, so that the loop terminates whatever the pages are.
C30_WindowStartAdvances == [][PageReceived => WindowStartAdvanced]_vars

\* ------------------------------------------------------------------------
\* The metric functions called on their own (src/src/backtester/metrics.py)
\* ------------------------------------------------------------------------
\* equity values: positive, as the account value of a run is
EquityValues == {R(1), R(2), R(3), R(4)}

RECURSIVE SeqsUpTo(_, _)
SeqsUpTo(S, n) ==
  IF n = 0 THEN {<<>>}
  ELSE SeqsUpTo(S, n - 1)
         \cup {Append(q, x) : q \in {r \in SeqsUpTo(S, n - 1) : Len(r) = n - 1},
                              x \in S}

\* equity curves as calculate_all_metrics passes them: never empty
EquityCurves == SeqsUpTo(EquityValues, MaxCurve) \ {<<>>}

\* a Trade as its constructor leaves it (open, pnl None), or closed with a
\* pnl, or marked closed without a pnl
OpenTrade == Trade(1, One, One, "long", Zero)

ClosedTrade(pnl) ==
  [OpenTrade EXCEPT !.is_open = FALSE, !.pnl = pnl, !.exit_time = 2,
                    !.exit_price = One]

TradeValues ==
  {OpenTrade, [OpenTrade EXCEPT !.is_open = FALSE]}
    \cup {ClosedTrade(R(v)) : v \in {-2, -1, 0, 1, 3}}

TradeLists == SeqsUpTo(TradeValues, MaxTrades)

InitMetrics ==
  /\ fn \in [name : {"calculate_max_drawdown"}, equity_curve : EquityCurves]
              \cup [name : {"calculate_trade_metrics"}, trades : TradeLists]
  /\ fpc = "called"
  /\ fret = <<>>
  /\ parameters = DefaultRiskParameters
  /\ NoRun
  /\ NoRiskCall
  /\ NoClient
  /\ NoDashboard
  /\ NoGenerator

CalculateMaxDrawdown ==
  /\ fpc = "called"
  /\ fn.name = "calculate_max_drawdown"
  /\ fret' = <<calculate_max_drawdown(fn.equity_curve)>>
  /\ fpc' = "returned"
  /\ UNCHANGED <<fn, engineVars, riskVars, clientVars, dashVars, genVars>>

CalculateTradeMetrics ==
  /\ fpc = "called"
  /\ fn.name = "calculate_trade_metrics"
  /\ fret' = <<calculate_trade_metrics(fn.trades)>>
  /\ fpc' = "returned"
  /\ UNCHANGED <<fn, engineVars, riskVars, clientVars, dashVars, genVars>>

NextMetrics == CalculateMaxDrawdown \/ CalculateTradeMetrics

SpecMetrics == InitMetrics /\ [][NextMetrics]_vars

ReturnedFrom(name) == fpc = "returned" /\ fn.name = name

\* the running peak at point k, and the decline from it as a fraction
PeakAt(curve, k) ==
  CHOOSE m \in {curve[j] : j \in 1..k} : \A j \in 1..k : RLe(curve[j], m)

DeclineAt(curve, k) ==
  RDiv(RSub(PeakAt(curve, k), curve[k]), PeakAt(curve, k))

NeverFalls(curve) ==
  \A k \in 1..Len(curve) : curve[k] = PeakAt(curve, k)

HalvesFromPeak(curve) ==
  /\ \E k \in 1..Len(curve) : DeclineAt(curve, k) = <<1, 2>>
  /\ \A k \in 1..Len(curve) : RLe(DeclineAt(curve, k), <<1, 2>>)

\* C11: calculate_max_drawdown returns non-negative values; both are 0 for
\* a curve that never falls below its running peak, and max_drawdown_pct is
\* 1/2 for a curve whose largest decline is from a peak to half of it.
C11_MaxDrawdownAgainstRunningPeak ==
  ReturnedFrom("calculate_max_drawdown") =>
    /\ RLe(Zero, fret[1][1])
    /\ RLe(Zero, fret[1][2])
    /\ NeverFalls(fn.equity_curve) => fret[1] = <<Zero, Zero>>
    /\ HalvesFromPeak(fn.equity_curve) => fret[1][2] = <<1, 2>>

\* a curve that rises above its first point and then halves from that peak
C11_Witness ==
  /\ ReturnedFrom("calculate_max_drawdown")
  /\ HalvesFromPeak(fn.equity_curve)
  /\ RLt(fn.equity_curve[1], PeakAt(fn.equity_curve, Len(fn.equity_curve)))
  /\ fret[1][2] = <<1, 2>>

IsClosedTrade(t) == ~t.is_open /\ ~IsNone(t.pnl)

NumClosed(ts) == Cardinality({k \in 1..Len(ts) : IsClosedTrade(ts[k])})

NumWinning(ts) ==
  Cardinality({k \in 1..Len(ts) : IsClosedTrade(ts[k]) /\ ts[k].pnl[1] > 0})

NumLosing(ts) ==
  Cardinality({k \in 1..Len(ts) : IsClosedTrade(ts[k]) /\ ts[k].pnl[1] < 0})

AllMetricsZero(m) ==
  /\ m.total_trades = 0 /\ m.winning_trades = 0 /\ m.losing_trades = 0
  /\ m.win_rate = Zero /\ m.avg_win = Zero /\ m.avg_loss = Zero
  /\ m.profit_factor = Zero

\* C12: calculate_trade_metrics counts closed trades only: total_trades is
\* the number of closed trades, win_rate is winning_trades / total_trades,
\* the profit factor is infinite when no closed trade loses, and every
\* metric is 0 when the list holds no closed trade.
C12_MetricsOverClosedTradesOnly ==
  ReturnedFrom("calculate_trade_metrics") =>
    /\ fret[1].total_trades = NumClosed(fn.trades)
    /\ NumClosed(fn.trades) > 0 =>
         /\ fret[1].win_rate =
              RDiv(R(NumWinning(fn.trades)), R(NumClosed(fn.trades)))
         /\ NumLosing(fn.trades) = 0 => fret[1].profit_factor = Inf
    /\ NumClosed(fn.trades) = 0 => AllMetricsZero(fret[1])

\* ------------------------------------------------------------------------
\* The dashboard's session state (src/app.py)
\* ------------------------------------------------------------------------
StrategyNames == {"RSI Strategy", "MACD Strategy"}
Symbols == {"BTC-USDT", "ETH-USDT"}

\* StoreResults leaving the strategy name and the symbol out
StoreResults_ResultsOnly(ss, run, strategy_name, symbol, use_real_data) ==
  [ss EXCEPT !.results = <<[run |-> run]>>,
             !.use_real_data = <<use_real_data>>]

\* run_backtest of the dashboard: the four keys are stored after the engine
\* returned; an exception before that is reported and nothing is stored
StoreResults(ss, run, strategy_name, symbol, use_real_data) ==
  [ss EXCEPT !.results = <<[run |-> run]>>,
             !.strategy_name = <<strategy_name>>,
             !.symbol = <<symbol>>,
             !.use_real_data = <<use_real_data>>]

\* the 'new backtest' button: del st.session_state.results
DeleteResults(ss) == [ss EXCEPT !.results = <<>>]

\* the main area of one script run: the configuration view when no
\* 'results' key is stored, else show_results, which reads results,
\* strategy_name and symbol
MainArea(ss) ==
  IF ss.results = <<>> THEN "config"
  ELSE IF ss.strategy_name = <<>> \/ ss.symbol = <<>> THEN "error"
  ELSE "results"

\* the page after its first script run
InitDashboard ==
  /\ session_state = EmptySession
  /\ view = MainArea(EmptySession)
  /\ events = <<>>
  /\ NoChart
  /\ NoGenerator
  /\ parameters = DefaultRiskParameters
  /\ NoRun
  /\ NoRiskCall
  /\ NoLibCall
  /\ NoClient

\* the run button, the run succeeds: store, st.rerun(), and the script run
\* that follows renders the main area
RunSucceeds ==
  /\ Len(events) < MaxEvents
  /\ \E strategy_name \in StrategyNames, symbol \in Symbols,
        use_real_data \in BOOLEAN :
       session_state' = StoreResults(session_state, Len(events) + 1,
                                     strategy_name, symbol, use_real_data)
  /\ view' = MainArea(session_state')
  /\ events' = Append(events, "run_succeeded")
  /\ UNCHANGED <<chart_args, wpc, currentCdnIndex, container, fallback_chart,
                 engineVars, riskVars, clientVars, libVars, genVars>>

\* the run button, the run raises: st.error, and the same script run goes
\* on to the main area
RunFails ==
  /\ Len(events) < MaxEvents
  /\ session_state' = session_state
  /\ view' = MainArea(session_state')
  /\ events' = Append(events, "run_failed")
  /\ UNCHANGED <<chart_args, wpc, currentCdnIndex, container, fallback_chart,
                 engineVars, riskVars, clientVars, libVars, genVars>>

\* the 'new backtest' button, which show_results renders: delete,
\* st.rerun(), and the script run that follows
NewBacktest ==
  /\ Len(events) < MaxEvents
  /\ view = "results"
  /\ session_state' = DeleteResults(session_state)
  /\ view' = MainArea(session_state')
  /\ events' = Append(events, "new_backtest")
  /\ UNCHANGED <<chart_args, wpc, currentCdnIndex, container, fallback_chart,
                 engineVars, riskVars, clientVars, libVars, genVars>>

\* a script run that no button caused (any other widget changed)
Reevaluate ==
  /\ Len(events) < MaxEvents
  /\ view' = MainArea(session_state)
  /\ events' = Append(events, "reevaluated")
  /\ UNCHANGED <<session_state, chart_args, wpc, currentCdnIndex, container,
                 fallback_chart, engineVars, riskVars, clientVars, libVars,
                 genVars>>

NextDashboard == RunSucceeds \/ RunFails \/ NewBacktest \/ Reevaluate

SpecDashboard == InitDashboard /\ [][NextDashboard]_vars

ResultsStored == session_state.results # <<>>

SucceededSinceNew ==
  \E i \in 1..Len(events) :
    /\ events[i] = "run_succeeded"
    /\ \A j \in (i + 1)..Len(events) : events[j] # "new_backtest"

ViewFollowsSession ==
  /\ view = "results" <=> ResultsStored
  /\ ResultsStored <=> SucceededSinceNew
  /\ ResultsStored =>
       session_state.strategy_name # <<>> /\ session_state.symbol # <<>>

FailedRunKeepsSession ==
  (events' # events /\ events'[Len(events')] = "run_failed") =>
    /\ session_state'.results = session_state.results
    /\ session_state'.strategy_name = session_state.strategy_name
    /\ session_state'.symbol = session_state.symbol

\* C13: after any sequence of dashboard events the results view is rendered
\* iff a Results value is stored, a Results value is stored iff a run has
\* succeeded since the last 'new backtest', strategy name and symbol are
\* stored whenever Results is, and a failed run leaves the stored Results,
\* strategy name and symbol as they were.
C13_ResultsViewIffStored ==
  []ViewFollowsSession /\ [][FailedRunKeepsSession]_vars

\* a run succeeded, the results were cleared, a run failed on the cleared
\* session and a later run succeeded
C13_Witness ==
  /\ events = <<"run_succeeded", "new_backtest", "run_failed", "run_succeeded">>
  /\ view = "results"
  /\ session_state.results = <<[run |-> 4]>>

\* ------------------------------------------------------------------------
\* The embedded chart widget and its fallback renderer
\* (src/app.py, src/src/visualization/tradingview_enhanced.py)
\* ------------------------------------------------------------------------
\* show_trading_signals_chart with "TradingView Style" chosen: it returns
\* before the renderer when there are no trades or no data
InitChart ==
  /\ chart_args \in [data : BarSeries \ {<<>>}, trades : 1..2]
  /\ wpc = "python"
  /\ currentCdnIndex = 0
  /\ container = "none"
  /\ fallback_chart = <<>>
  /\ session_state = EmptySession
  /\ view = "results"
  /\ events = <<>>
  /\ parameters = DefaultRiskParameters
  /\ NoRun
  /\ NoRiskCall
  /\ NoLibCall
  /\ NoClient
  /\ NoGenerator

\* create_enhanced_tradingview_chart inside the try of the dashboard: it
\* raises while preparing the page, and the except branch calls
\* create_fallback_chart, or it hands the page to the browser
CreateEnhancedChart ==
  /\ wpc = "python"
  /\ \E raises \in BOOLEAN :
       IF raises
         THEN /\ fallback_chart' = <<chart_args>>
              /\ wpc' = "done"
              /\ container' = container
         ELSE /\ container' = "placeholder"
              /\ wpc' = "loading"
              /\ fallback_chart' = fallback_chart
  /\ UNCHANGED <<chart_args, currentCdnIndex, session_state, view, events,
                 engineVars, riskVars, clientVars, libVars, genVars>>

\* script.onerror of loadTradingViewWithFallback: try the next URL
ScriptError ==
  /\ wpc = "loading"
  /\ currentCdnIndex < NumCdnUrls
  /\ currentCdnIndex' = currentCdnIndex + 1
  /\ UNCHANGED <<chart_args, wpc, container, fallback_chart, session_state,
                 view, events, engineVars, riskVars, clientVars, libVars,
                 genVars>>

\* script.onload: the promise resolves
ScriptLoad ==
  /\ wpc = "loading"
  /\ currentCdnIndex < NumCdnUrls
  /\ wpc' = "loaded"
  /\ UNCHANGED <<chart_args, currentCdnIndex, container, fallback_chart,
                 session_state, view, events, engineVars, riskVars,
                 clientVars, libVars, genVars>>

\* every URL failed: the promise rejects and the catch block of createChart
\* writes the error message into the container
AllCdnFailed ==
  /\ wpc = "loading"
  /\ currentCdnIndex >= NumCdnUrls
  /\ container' = "error"
  /\ wpc' = "done"
  /\ UNCHANGED <<chart_args, currentCdnIndex, fallback_chart, session_state,
                 view, events, engineVars, riskVars, clientVars, libVars,
                 genVars>>

\* createChart after the load: the check of the library symbol, whose
\* failure goes to the same catch block, then the chart
CreateChart ==
  /\ wpc = "loaded"
  /\ \E symbol_defined \in BOOLEAN :
       container' = IF symbol_defined THEN "chart" ELSE "error"
  /\ wpc' = "done"
  /\ UNCHANGED <<chart_args, currentCdnIndex, fallback_chart, session_state,
                 view, events, engineVars, riskVars, clientVars, libVars,
                 genVars>>

NextChart ==
  CreateEnhancedChart \/ ScriptError \/ ScriptLoad \/ AllCdnFailed
    \/ CreateChart

SpecChart == InitChart /\ [][NextChart]_vars

\* C14: whenever the widget fails to initialise (every CDN URL failed, or
\* the library symbol is missing after the load), create_fallback_chart has
\* run and drawn the chart from the same data and trades.
C14_FallbackOnWidgetFailure ==
  (wpc = "done" /\ container = "error") => fallback_chart = <<chart_args>>

\* ------------------------------------------------------------------------
\* Technical indicators (src/src/indicators/technical.py)
\* ------------------------------------------------------------------------
\* the undefined value of a float series
FloatNaN == None

RECURSIVE SumSeries(_)
SumSeries(series) ==
  IF series = <<>> THEN Zero ELSE RAdd(series[1], SumSeries(Tail(series)))

\* Series.rolling(window).mean(): undefined until the window is full (and
\* while it holds an undefined value), then the mean of the window
RollingMean(series, window) ==
  [k \in 1..Len(series) |->
     IF k < window
          \/ \E j \in (k - window + 1)..k : IsNone(series[j])
       THEN FloatNaN
       ELSE RDiv(SumSeries(SubSeq(series, k - window + 1, k)), R(window))]

\* a rolling mean defined from the first sample on (min_periods = 1)
sma_FromFirstSample(series, period) ==
  [k \in 1..Len(series) |->
     LET from == IF k < period THEN 1 ELSE k - period + 1
     IN  RDiv(SumSeries(SubSeq(series, from, k)), R(k - from + 1))]

sma(series, period) == RollingMean(series, period)

volume_sma(volume, period) == RollingMean(volume, period)

\* the indicators computed by the ta library: a series of the length of the
\* input, determined by the inputs and the window parameters
Computed(name, windows, args) ==
  [k \in 1..Len(args[1]) |-> <<name, windows, args>>]

ema(series, period) == Computed("ewm_mean", <<period>>, <<series>>)

OhlcvColumns == {"open", "high", "low", "close", "volume"}

IndicatorColumns ==
  {"sma_20", "sma_50", "ema_12", "ema_26", "rsi", "macd", "macd_signal",
   "macd_histogram", "bb_upper", "bb_middle", "bb_lower", "stoch_k",
   "stoch_d", "atr", "adx", "volume_sma"}

\* df[name] = column on a frame (a function from column names to columns)
SetColumn(df, name, column) ==
  [c \in (DOMAIN df) \cup {name} |-> IF c = name THEN column ELSE df[c]]

\* the sixteen assignments of add_all_indicators, made on the frame work
WithAllIndicators(work) ==
  LET close == work["close"]
      hlc == <<work["high"], work["low"], work["close"]>>
      d1 == SetColumn(work, "sma_20", sma(close, 20))
      d2 == SetColumn(d1, "sma_50", sma(close, 50))
      d3 == SetColumn(d2, "ema_12", ema(close, 12))
      d4 == SetColumn(d3, "ema_26", ema(close, 26))
      d5 == SetColumn(d4, "rsi", Computed("rsi", <<14>>, <<close>>))
      d6 == SetColumn(d5, "macd", Computed("macd", <<12, 26>>, <<close>>))
      d7 == SetColumn(d6, "macd_signal",
                      Computed("macd_signal", <<12, 26, 9>>, <<close>>))
      d8 == SetColumn(d7, "macd_histogram",
                      Computed("macd_diff", <<12, 26, 9>>, <<close>>))
      d9 == SetColumn(d8, "bb_upper",
                      Computed("bollinger_hband", <<20, 2>>, <<close>>))
      d10 == SetColumn(d9, "bb_middle",
                       Computed("bollinger_mavg", <<20>>, <<close>>))
      d11 == SetColumn(d10, "bb_lower",
                       Computed("bollinger_lband", <<20, 2>>, <<close>>))
      d12 == SetColumn(d11, "stoch_k", Computed("stoch", <<14, 3>>, hlc))
      d13 == SetColumn(d12, "stoch_d",
                       Computed("stoch_signal", <<14, 3>>, hlc))
      d14 == SetColumn(d13, "atr",
                       Computed("average_true_range", <<14>>, hlc))
      d15 == SetColumn(d14, "adx", Computed("adx", <<14>>, hlc))
  IN  SetColumn(d15, "volume_sma", volume_sma(work["volume"], 20))

\* add_all_indicators working on the caller's frame itself
add_all_indicators_InPlace(df) ==
  [result |-> WithAllIndicators(df), df |-> WithAllIndicators(df)]

\* add_all_indicators: the assignments are made on a copy; the value is the
\* returned frame together with the caller's frame after the call
add_all_indicators(df) ==
  [result |-> WithAllIndicators(df), df |-> df]

\* input frames: the OHLCV columns, with or without further columns
SampleValues == {R(1), R(2), R(3)}

Columns(n) == {q \in SeqsUpTo({R(1), R(2)}, n) : Len(q) = n}

\* a frame whose open, high and low columns hold the same series
Frame(ohl, close, volume) ==
  [c \in OhlcvColumns |->
     IF c = "close" THEN close ELSE IF c = "volume" THEN volume ELSE ohl]

Frames ==
  UNION {{Frame(o, c, v) : o \in Columns(n), c \in Columns(n), v \in Columns(n)}
           \cup {SetColumn(Frame(o, c, v), "rsi", x) :
                   o \in Columns(n), c \in Columns(n), v \in Columns(n),
                   x \in Columns(n)} :
         n \in 1..MaxRows}

PriceSeries == SeqsUpTo(SampleValues, MaxSeries) \ {<<>>}

InitIndicators ==
  /\ fn \in [name : {"add_all_indicators"}, df : Frames]
              \cup {c \in [name : {"sma"}, data : PriceSeries,
                           period : 1..MaxSeries] : c.period <= Len(c.data)}
  /\ fpc = "called"
  /\ fret = <<>>
  /\ parameters = DefaultRiskParameters
  /\ NoRun
  /\ NoRiskCall
  /\ NoClient
  /\ NoDashboard
  /\ NoGenerator

AddAllIndicators ==
  /\ fpc = "called"
  /\ fn.name = "add_all_indicators"
  /\ fret' = <<add_all_indicators(fn.df)>>
  /\ fpc' = "returned"
  /\ UNCHANGED <<fn, engineVars, riskVars, clientVars, dashVars, genVars>>

Sma ==
  /\ fpc = "called"
  /\ fn.name = "sma"
  /\ fret' = <<sma(fn.data, fn.period)>>
  /\ fpc' = "returned"
  /\ UNCHANGED <<fn, engineVars, riskVars, clientVars, dashVars, genVars>>

NextIndicators == AddAllIndicators \/ Sma

SpecIndicators == InitIndicators /\ [][NextIndicators]_vars

\* C15: the frame add_all_indicators returns holds the sixteen indicator
\* columns and every column of the input, and the caller's frame has the
\* same columns and the same values after the call as before it.
C15_AllIndicatorsAddedCallerUntouched ==
  ReturnedFrom("add_all_indicators") =>
    /\ IndicatorColumns \subseteq DOMAIN fret[1].result
    /\ DOMAIN fn.df \subseteq DOMAIN fret[1].result
    /\ Cardinality(IndicatorColumns) = 16
    /\ fret[1].df = fn.df

\* an input that already has a column of an indicator's name
C15_Witness ==
  /\ ReturnedFrom("add_all_indicators")
  /\ "rsi" \in DOMAIN fn.df
  /\ Len(fn.df["close"]) = MaxRows
  /\ fret[1].result["rsi"] # fn.df["rsi"]

\* C16: for a series of length n and a period P with 1 <= P <= n, the SMA
\* has length n, is undefined at exactly its first P-1 points, and its
\* value at the P-th point is the mean of the first P samples.
C16_SmaLeadingUndefinedThenMean ==
  ReturnedFrom("sma") =>
    /\ Len(fret[1]) = Len(fn.data)
    /\ \A k \in 1..Len(fn.data) : IsNone(fret[1][k]) <=> k < fn.period
    /\ fret[1][fn.period] =
         RDiv(SumSeries(SubSeq(fn.data, 1, fn.period)), R(fn.period))

\* a period strictly between 1 and the length, on samples that differ
C16_Witness ==
  /\ ReturnedFrom("sma")
  /\ fn.period > 1
  /\ fn.period < Len(fn.data)
  /\ fn.data[1] # fn.data[2]
  /\ ~IsNone(fret[1][Len(fn.data)])

\* ------------------------------------------------------------------------
\* The synthetic generator and numpy's global random state
\* (src/src/api/bingx_client.py)
\* ------------------------------------------------------------------------
\* np.random.seed(s), and the state after one draw
Seed(s) == s % RngModulus

NextState(x) == (5 * x + 3) % RngModulus

BasePrice(symbol) ==
  IF symbol = "BTCUSDT" THEN 43000
  ELSE IF symbol = "ETHUSDT" THEN 2500
  ELSE IF symbol = "BNBUSDT" THEN 320
  ELSE 1

\* the m generator states that follow state x, one per draw
RECURSIVE DrawStates(_, _)
DrawStates(x, m) ==
  IF m = 0 THEN <<>>
  ELSE IF m = 1 THEN <<NextState(x)>>
  ELSE LET half == DrawStates(x, m \div 2)
       IN  half \o DrawStates(half[Len(half)], m - (m \div 2))

\* the loop over the n bars of date_range, starting with generator state
\* x: four draws per bar (trend, volatility, close_trend, volume); a bar's
\* prices are determined by the base price and the draws up to that bar
SyntheticBars(n, x, base) ==
  LET draws == DrawStates(x, 4 * n)
  IN  [rows |-> [k \in 1..n |->
                   [ts |-> k,
                    val |-> <<base, draws[4 * k - 3], draws[4 * k - 2],
                              draws[4 * k - 1], draws[4 * k]>>]],
       rng |-> draws[4 * n]]

\* the generator drawing from the state the earlier calls left
generate_synthetic_data_Unseeded(o, x) ==
  LET out == SyntheticBars(SyntheticLen(o), x, BasePrice(o.symbol))
  IN  [series |-> Series("synthetic", out.rows, SyntheticLen(o)),
       rng |-> out.rng]

\* _generate_synthetic_data called with the global generator in state x:
\* the series returned and the state left behind
generate_synthetic_data(o, x) ==
  LET out == SyntheticBars(SyntheticLen(o), Seed(42), BasePrice(o.symbol))
  IN  [series |-> Series("synthetic", out.rows, SyntheticLen(o)),
       rng |-> out.rng]

\* calls for a one-day range and for a range of a single bar (which gets
\* 100 periods)
GeneratorCalls ==
  [symbol : {"BTCUSDT", "XRPUSDT"}, interval : {"1d"},
   start_date : {0, 1}, end_date : {1}]

InitSynthetic ==
  /\ rng \in 0..(RngModulus - 1)
  /\ generated = <<>>
  /\ parameters = DefaultRiskParameters
  /\ NoRun
  /\ NoRiskCall
  /\ NoLibCall
  /\ NoClient
  /\ NoDashboard

GenerateSyntheticData ==
  /\ Len(generated) < MaxCalls
  /\ \E o \in GeneratorCalls :
       \E out \in {generate_synthetic_data(o, rng)} :
         /\ generated' = Append(generated,
                                [args |-> o, before |-> rng,
                                 output |-> out.series])
         /\ rng' = out.rng
  /\ UNCHANGED <<engineVars, riskVars, clientVars, libVars, dashVars>>

\* any other use of numpy's global generator between two calls
OtherRandomUse ==
  /\ generated # <<>>
  /\ \E x \in 0..(RngModulus - 1) :
       /\ x # rng
       /\ rng' = x
  /\ UNCHANGED <<generated, engineVars, riskVars, clientVars, libVars,
                 dashVars>>

NextSynthetic == GenerateSyntheticData \/ OtherRandomUse

SpecSynthetic == InitSynthetic /\ [][NextSynthetic]_vars

\* C17: two calls of the synthetic generator with the same symbol, interval
\* and date range return the same series (same index, same values),
\* whatever was called in between and whatever state the random generator
\* was left in.
C17_SyntheticGeneratorDeterministic ==
  \A i, j \in 1..Len(generated) :
    generated[i].args = generated[j].args =>
      generated[i].output = generated[j].output

\* the same call made twice from different generator states, with a call
\* for another symbol in between
C17_Witness ==
  /\ Len(generated) = 3
  /\ generated[1].args = generated[3].args
  /\ generated[2].args.symbol # generated[1].args.symbol
  /\ generated[1].before # generated[3].before
  /\ generated[1].output.rows # <<>>

\* ------------------------------------------------------------------------
\* Strategies (src/src/strategies/rsi_strategy.py, ema_strategy.py)
\* ------------------------------------------------------------------------
\* comparisons of floats: any comparison with NaN is false
IsNaN(x) == x = FloatNaN
FLt(a, b) == ~IsNaN(a) /\ ~IsNaN(b) /\ RLt(a, b)
FLe(a, b) == ~IsNaN(a) /\ ~IsNaN(b) /\ RLe(a, b)

\* TradeSignal(timestamp, signal_type, price, confidence, reason) as the
\* strategies build it: stop_loss and take_profit keep their default None
Signal(timestamp, signal_type, confidence) ==
  [timestamp |-> timestamp, signal_type |-> signal_type,
   confidence |-> confidence, stop_loss |-> None, take_profit |-> None]

\* the locals a bar of a signal loop leaves behind
Scanned(position, sigs) == [position |-> position, signals |-> sigs]

\* max(0.1, min(1.0, confidence))
Clamp(confidence) == RMax(<<1, 10>>, RMin(One, confidence))

\* the RSI confidences without the clamp
RSIBuyConfidence_Unclamped(self, current_rsi) ==
  RDiv(RSub(self.buy_threshold, current_rsi), self.buy_threshold)

RSIBuyConfidence(self, current_rsi) ==
  Clamp(RDiv(RSub(self.buy_threshold, current_rsi), self.buy_threshold))

RSISellConfidence(self, current_rsi) ==
  Clamp(RDiv(RSub(current_rsi, self.sell_threshold),
             RSub(R(100), self.sell_threshold)))

\* one iteration of RSIStrategy.generate_signals
RSIBar(self, position, sigs, timestamp, previous, current) ==
  IF IsNaN(current.rsi) \/ IsNaN(previous.rsi) THEN Scanned(position, sigs)
  ELSE IF /\ FLe(self.buy_threshold, previous.rsi)
          /\ FLt(current.rsi, self.buy_threshold)
          /\ position # "long"
    THEN Scanned("long",
                 Append(sigs, Signal(timestamp, "buy",
                                     RSIBuyConfidence(self, current.rsi))))
  ELSE IF /\ FLe(previous.rsi, self.sell_threshold)
          /\ FLt(self.sell_threshold, current.rsi)
          /\ position = "long"
    THEN Scanned("none",
                 Append(sigs, Signal(timestamp, "sell",
                                     RSISellConfidence(self, current.rsi))))
  ELSE Scanned(position, sigs)

\* the MACD iteration with a buy branch that does not look at position
MACDBar_BuyWhileLong(self, position, sigs, timestamp, previous, current) ==
  IF IsNaN(current.macd) \/ IsNaN(current.macd_signal)
    THEN Scanned(position, sigs)
  ELSE IF /\ FLe(previous.macd, previous.macd_signal)
          /\ FLt(current.macd_signal, current.macd)
    THEN Scanned("long", Append(sigs, Signal(timestamp, "buy", <<4, 5>>)))
  ELSE IF /\ FLe(previous.macd_signal, previous.macd)
          /\ FLt(current.macd, current.macd_signal)
          /\ position = "long"
    THEN Scanned("none", Append(sigs, Signal(timestamp, "sell", <<4, 5>>)))
  ELSE Scanned(position, sigs)

\* one iteration of MACDStrategy.generate_signals
MACDBar(self, position, sigs, timestamp, previous, current) ==
  IF IsNaN(current.macd) \/ IsNaN(current.macd_signal)
    THEN Scanned(position, sigs)
  ELSE IF /\ FLe(previous.macd, previous.macd_signal)
          /\ FLt(current.macd_signal, current.macd)
          /\ position # "long"
    THEN Scanned("long", Append(sigs, Signal(timestamp, "buy", <<4, 5>>)))
  ELSE IF /\ FLe(previous.macd_signal, previous.macd)
          /\ FLt(current.macd, current.macd_signal)
          /\ position = "long"
    THEN Scanned("none", Append(sigs, Signal(timestamp, "sell", <<4, 5>>)))
  ELSE Scanned(position, sigs)

\* one iteration of BollingerBandsStrategy.generate_signals
BollingerBar(self, position, sigs, timestamp, previous, current) ==
  IF IsNaN(current.bb_lower) \/ IsNaN(current.bb_upper)
    THEN Scanned(position, sigs)
  ELSE IF /\ FLt(previous.bb_lower, previous.close)
          /\ FLe(current.close, current.bb_lower)
          /\ position # "long"
    THEN Scanned("long", Append(sigs, Signal(timestamp, "buy", <<7, 10>>)))
  ELSE IF /\ FLt(previous.close, previous.bb_upper)
          /\ FLe(current.bb_upper, current.close)
          /\ position = "long"
    THEN Scanned("none", Append(sigs, Signal(timestamp, "sell", <<7, 10>>)))
  ELSE Scanned(position, sigs)

\* one iteration of EMAGoldenCrossStrategy.generate_signals
GoldenCrossBar(self, position, sigs, timestamp, previous, current) ==
  IF IsNaN(current.ema_fast) \/ IsNaN(current.ema_slow)
    THEN Scanned(position, sigs)
  ELSE IF /\ FLe(previous.ema_fast, previous.ema_slow)
          /\ FLt(current.ema_slow, current.ema_fast)
          /\ position # "long"
    THEN Scanned("long", Append(sigs, Signal(timestamp, "buy", <<4, 5>>)))
  ELSE IF /\ FLe(previous.ema_slow, previous.ema_fast)
          /\ FLt(current.ema_fast, current.ema_slow)
          /\ position = "long"
    THEN Scanned("none", Append(sigs, Signal(timestamp, "sell", <<4, 5>>)))
  ELSE Scanned(position, sigs)

\* EMAStrategy: the conditions of a bar
bullish_alignment(current) ==
  FLt(current.ema_medium, current.ema_fast)
    /\ FLt(current.ema_slow, current.ema_medium)
bearish_alignment(current) ==
  FLt(current.ema_fast, current.ema_medium)
    /\ FLt(current.ema_medium, current.ema_slow)
strong_bullish_trend(self, current) ==
  FLt(self.min_trend_strength, current.ema_fast_slope)
    /\ FLt(Zero, current.ema_medium_slope)
strong_bearish_trend(self, current) ==
  FLt(current.ema_fast_slope, RSub(Zero, self.min_trend_strength))
    /\ FLt(current.ema_medium_slope, Zero)
price_cross_above_fast(previous, current) ==
  FLe(previous.close, previous.ema_fast)
    /\ FLt(current.ema_fast, current.close)
price_cross_below_fast(previous, current) ==
  FLe(previous.ema_fast, previous.close)
    /\ FLt(current.close, current.ema_fast)

\* exit_condition of the position held
exit_condition(self, position, previous, current) ==
  IF position = "long"
    THEN \/ price_cross_below_fast(previous, current)
              /\ FLt(current.ema_fast_slope, Zero)
         \/ /\ self.trend_filter
            /\ ~bullish_alignment(current)
            /\ FLt(current.ema_fast, current.ema_medium)
    ELSE \/ price_cross_above_fast(previous, current)
              /\ FLt(Zero, current.ema_fast_slope)
         \/ /\ self.trend_filter
            /\ ~bearish_alignment(current)
            /\ FLt(current.ema_medium, current.ema_fast)

\* min(alignment_score + strength_score, 1.0)
EntryConfidence(self, aligned, slope) ==
  LET alignment_score == IF aligned THEN <<3, 5>> ELSE <<3, 10>>
      strength_score ==
        RMin(RMul(RDiv(slope, self.min_trend_strength), <<2, 5>>), <<2, 5>>)
  IN  RMin(RAdd(alignment_score, strength_score), One)

\* one iteration of EMAStrategy.generate_signals
EMABar(self, position, sigs, timestamp, previous, current) ==
  IF IsNaN(current.ema_fast) \/ IsNaN(current.ema_medium)
       \/ IsNaN(current.ema_slow)
    THEN Scanned(position, sigs)
  ELSE IF /\ self.allow_longs
          /\ position # "long"
          /\ price_cross_above_fast(previous, current)
    THEN IF (self.trend_filter => bullish_alignment(current))
              /\ strong_bullish_trend(self, current)
           THEN Scanned("long",
                  Append(sigs,
                    Signal(timestamp, "buy",
                           EntryConfidence(self, bullish_alignment(current),
                                           current.ema_fast_slope))))
           ELSE Scanned(position, sigs)
  ELSE IF /\ self.allow_shorts
          /\ position # "short"
          /\ price_cross_below_fast(previous, current)
    THEN IF (self.trend_filter => bearish_alignment(current))
              /\ strong_bearish_trend(self, current)
           THEN Scanned("short",
                  Append(sigs,
                    Signal(timestamp, "sell",
                           EntryConfidence(self, bearish_alignment(current),
                                           RAbs(current.ema_fast_slope)))))
           ELSE Scanned(position, sigs)
  ELSE IF position = "long"
    THEN IF exit_condition(self, "long", previous, current)
           THEN Scanned("none",
                        Append(sigs, Signal(timestamp, "sell", <<4, 5>>)))
           ELSE Scanned(position, sigs)
  ELSE IF position = "short"
    THEN IF exit_condition(self, "short", previous, current)
           THEN Scanned("none",
                        Append(sigs, Signal(timestamp, "sell", <<4, 5>>)))
           ELSE Scanned(position, sigs)
  ELSE Scanned(position, sigs)

\* what add_all_indicators put into the columns the strategies read: the
\* library function and its window arguments
DefaultColumns ==
  [rsi |-> <<"rsi", <<14>>>>,
   macd |-> <<"macd", <<12, 26>>>>,
   macd_signal |-> <<"macd_signal", <<12, 26, 9>>>>,
   bb_upper |-> <<"bollinger_hband", <<20, 2>>>>,
   bb_lower |-> <<"bollinger_lband", <<20, 2>>>>]

\* TechnicalIndicators.rsi / macd / bollinger_bands / ema with the
\* strategy's own arguments
OwnColumns(name, self) ==
  CASE name = "RSIStrategy" -> [rsi |-> <<"rsi", <<self.rsi_period>>>>]
    [] name = "MACDStrategy" ->
         [macd |-> <<"macd", <<self.fast_period, self.slow_period>>>>,
          macd_signal |->
            <<"macd_signal",
              <<self.fast_period, self.slow_period, self.signal_period>>>>]
    [] name = "BollingerBandsStrategy" ->
         [bb_upper |-> <<"bollinger_hband", <<self.bb_period, self.bb_std>>>>,
          bb_lower |-> <<"bollinger_lband", <<self.bb_period, self.bb_std>>>>]
    [] name = "EMAStrategy" ->
         [ema_fast |-> <<"ewm_mean", <<self.fast_ema>>>>,
          ema_medium |-> <<"ewm_mean", <<self.medium_ema>>>>,
          ema_slow |-> <<"ewm_mean", <<self.slow_ema>>>>]
    [] name = "EMAGoldenCrossStrategy" ->
         [ema_fast |-> <<"ewm_mean", <<self.fast_ema>>>>,
          ema_slow |-> <<"ewm_mean", <<self.slow_ema>>>>]

\* the columns the loop reads, after the head of generate_signals: the RSI,
\* MACD and Bollinger strategies compute theirs only if the frame does not
\* have them already, the EMA strategies always assign theirs
ColumnsRead(name, self, has_indicators) ==
  IF name \in {"RSIStrategy", "MACDStrategy", "BollingerBandsStrategy"}
       /\ has_indicators
    THEN [c \in DOMAIN OwnColumns(name, self) |-> DefaultColumns[c]]
    ELSE OwnColumns(name, self)

\* strategy objects as the dashboard and the tests construct them
Constructed(name) ==
  CASE name = "RSIStrategy" ->
         {[rsi_period |-> p, buy_threshold |-> R(b), sell_threshold |-> R(s)] :
            p \in {14, 7}, b \in {30, 0}, s \in {70, 100}}
    [] name = "MACDStrategy" ->
         {[fast_period |-> 12, slow_period |-> 26, signal_period |-> 9],
          [fast_period |-> 5, slow_period |-> 35, signal_period |-> 5]}
    [] name = "BollingerBandsStrategy" ->
         {[bb_period |-> 20, bb_std |-> 2], [bb_period |-> 10, bb_std |-> 3]}
    [] name = "EMAStrategy" ->
         [fast_ema : {20}, medium_ema : {55}, slow_ema : {200},
          min_trend_strength : {<<1, 1000>>, <<1, 2>>},
          allow_longs : BOOLEAN, allow_shorts : BOOLEAN,
          trend_filter : BOOLEAN]
    [] name = "EMAGoldenCrossStrategy" ->
         {[fast_ema |-> 50, slow_ema |-> 200]}

StrategyClasses ==
  {"RSIStrategy", "MACDStrategy", "BollingerBandsStrategy", "EMAStrategy",
   "EMAGoldenCrossStrategy"}

\* rows of the frame, reduced to the columns the loop reads
RsiRows ==
  [rsi : {FloatNaN, R(-1), R(0), R(29), R(50), R(71), R(100), R(101)}]
MacdRows == [macd : {FloatNaN, R(0), R(1)}, macd_signal : {FloatNaN, R(0), R(1)}]
BollingerRows ==
  {[close |-> R(c), bb_lower |-> R(1), bb_upper |-> R(3)] : c \in 0..4}
    \cup {[close |-> R(2), bb_lower |-> FloatNaN, bb_upper |-> FloatNaN]}
GoldenCrossRows ==
  [ema_fast : {R(0), R(1)}, ema_slow : {R(0), R(1)}]
    \cup {[ema_fast |-> FloatNaN, ema_slow |-> FloatNaN]}
\* (ema_fast_slope, ema_medium_slope) of a row
EmaSlopes ==
  {[fast |-> R(-1), medium |-> R(-1)], [fast |-> <<-1, 2000>>, medium |-> R(-1)],
   [fast |-> R(1), medium |-> R(1)]}
EmaRows ==
  {[close |-> R(c), ema_fast |-> R(2), ema_medium |-> R(m), ema_slow |-> R(s),
    ema_fast_slope |-> sl.fast, ema_medium_slope |-> sl.medium] :
     c \in {1, 3}, m \in {1, 3}, s \in {0, 4}, sl \in EmaSlopes}
    \cup {[close |-> R(1), ema_fast |-> FloatNaN, ema_medium |-> FloatNaN,
           ema_slow |-> FloatNaN, ema_fast_slope |-> FloatNaN,
           ema_medium_slope |-> FloatNaN]}

Rows(name) ==
  CASE name = "RSIStrategy" -> RsiRows
    [] name = "MACDStrategy" -> MacdRows
    [] name = "BollingerBandsStrategy" -> BollingerRows
    [] name = "EMAStrategy" -> EmaRows
    [] name = "EMAGoldenCrossStrategy" -> GoldenCrossRows

\* position in the frame of the first bar the loop evaluates:
\* range(1, len(data)), and range(max(slow_ema, 10), len(data)) for EMAStrategy
FirstBar(name, self) ==
  IF name = "EMAStrategy"
    THEN (IF self.slow_ema > 10 THEN self.slow_ema ELSE 10) + 1
    ELSE 2

\* generate_signals(data) at the head of its loop, called by run_backtest on
\* the frame add_all_indicators returned, or directly on an OHLCV frame
InitStrategies ==
  /\ \E name \in StrategyClasses, has_indicators \in BOOLEAN :
       \E self \in Constructed(name), first \in Rows(name) :
         fn = [name |-> name, self |-> self,
               entry |-> IF has_indicators THEN "run_backtest"
                         ELSE "generate_signals",
               columns |-> ColumnsRead(name, self, has_indicators),
               first |-> FirstBar(name, self), i |-> FirstBar(name, self),
               position |-> "none", previous |-> first]
  /\ fpc = "loop"
  /\ fret = <<>>
  /\ parameters = DefaultRiskParameters
  /\ NoRun
  /\ NoRiskCall
  /\ NoClient
  /\ NoDashboard
  /\ NoGenerator

InLoop(name, bars) ==
  /\ fpc = "loop"
  /\ fn.name = name
  /\ fn.i - fn.first < bars

RSIStep ==
  /\ InLoop("RSIStrategy", MaxScan)
  /\ \E current \in RsiRows :
       \E out \in {RSIBar(fn.self, fn.position, fret, fn.i, fn.previous,
                          current)} :
         /\ fn' = [fn EXCEPT !.i = @ + 1, !.position = out.position,
                             !.previous = current]
         /\ fret' = out.signals
  /\ UNCHANGED <<fpc, engineVars, riskVars, clientVars, dashVars, genVars>>

MACDStep ==
  /\ InLoop("MACDStrategy", MaxScan)
  /\ \E current \in MacdRows :
       \E out \in {MACDBar(fn.self, fn.position, fret, fn.i, fn.previous,
                           current)} :
         /\ fn' = [fn EXCEPT !.i = @ + 1, !.position = out.position,
                             !.previous = current]
         /\ fret' = out.signals
  /\ UNCHANGED <<fpc, engineVars, riskVars, clientVars, dashVars, genVars>>

BollingerStep ==
  /\ InLoop("BollingerBandsStrategy", MaxScan)
  /\ \E current \in BollingerRows :
       \E out \in {BollingerBar(fn.self, fn.position, fret, fn.i, fn.previous,
                                current)} :
         /\ fn' = [fn EXCEPT !.i = @ + 1, !.position = out.position,
                             !.previous = current]
         /\ fret' = out.signals
  /\ UNCHANGED <<fpc, engineVars, riskVars, clientVars, dashVars, genVars>>

GoldenCrossStep ==
  /\ InLoop("EMAGoldenCrossStrategy", MaxScan)
  /\ \E current \in GoldenCrossRows :
       \E out \in {GoldenCrossBar(fn.self, fn.position, fret, fn.i,
                                  fn.previous, current)} :
         /\ fn' = [fn EXCEPT !.i = @ + 1, !.position = out.position,
                             !.previous = current]
         /\ fret' = out.signals
  /\ UNCHANGED <<fpc, engineVars, riskVars, clientVars, dashVars, genVars>>

EMAStep ==
  /\ InLoop("EMAStrategy", MaxEmaScan)
  /\ \E current \in EmaRows :
       \E out \in {EMABar(fn.self, fn.position, fret, fn.i, fn.previous,
                          current)} :
         /\ fn' = [fn EXCEPT !.i = @ + 1, !.position = out.position,
                             !.previous = current]
         /\ fret' = out.signals
  /\ UNCHANGED <<fpc, engineVars, riskVars, clientVars, dashVars, genVars>>

\* the frame has no further bar: self.signals = signals; return signals
ReturnSignals ==
  /\ fpc = "loop"
  /\ fpc' = "returned"
  /\ UNCHANGED <<fn, fret, engineVars, riskVars, clientVars, dashVars,
                 genVars>>

NextStrategies ==
  \/ RSIStep
  \/ MACDStep
  \/ BollingerStep
  \/ GoldenCrossStep
  \/ EMAStep
  \/ ReturnSignals

SpecStrategies == InitStrategies /\ [][NextStrategies]_vars

LongOnlyStrategies ==
  {"RSIStrategy", "MACDStrategy", "BollingerBandsStrategy",
   "EMAGoldenCrossStrategy"}

\* BUY, SELL, BUY, ... on strictly later and later bars
Alternating(sigs) ==
  \A k \in 1..Len(sigs) :
    /\ sigs[k].signal_type = IF k % 2 = 1 THEN "buy" ELSE "sell"
    /\ k > 1 => sigs[k].timestamp > sigs[k - 1].timestamp

\* C25: for the RSI, MACD, Bollinger and Golden Cross strategies the signal
\* list, at every point of the scan and when returned, has strictly
\* increasing timestamps (so at most one signal per bar), starts with a BUY
\* and alternates BUY, SELL, BUY, ...; the strategy is long exactly after a
\* BUY, so no BUY is emitted while long and no SELL while not long.
C25_SignalsAlternate ==
  fn.name \in LongOnlyStrategies =>
    /\ Alternating(fret)
    /\ \A k \in 1..Len(fret) : fret[k].timestamp < fn.i
    /\ fn.position = IF Len(fret) % 2 = 1 THEN "long" ELSE "none"

\* a MACD scan returning BUY at the first evaluated bar, SELL two bars
\* later and BUY again on the bar after that
C25_Witness ==
  /\ fpc = "returned"
  /\ fn.name = "MACDStrategy"
  /\ Len(fret) = 3
  /\ fret[3].signal_type = "buy"
  /\ fret[1].timestamp = 2
  /\ fret[2].timestamp = 4

\* the step evaluates a bar of EMAStrategy on which a position is held and
\* its exit condition is true
ExitDue ==
  /\ fpc = "loop"
  /\ fn.name = "EMAStrategy"
  /\ fn'.i = fn.i + 1
  /\ fn.position \in {"long", "short"}
  /\ ~IsNaN(fn'.previous.ema_fast)
  /\ exit_condition(fn.self, fn.position, fn.previous, fn'.previous)

ExitEmitted ==
  /\ fret' = Append(fret, Signal(fn.i, "sell", <<4, 5>>))
  /\ fn'.position = "none"

\* C26: in EMAStrategy.generate_signals, whatever allow_longs, allow_shorts
\* and trend_filter are, a bar evaluated while in a position and with the
\* exit condition true emits an exit signal of confidence 0.8 on that bar
\* and leaves the tracked position flat.
C26_ExitEmittedWhenDue == [][ExitDue => ExitEmitted]_vars

\* C28: in a run through run_backtest, the RSI, MACD and Bollinger
\* strategies scan the indicator columns computed with their own constructor
\* arguments (rsi_period; fast, slow and signal periods; bb_period and
\* bb_std): the signals returned are those of these columns.
C28_OwnPeriodsScanned ==
  (/\ fpc = "returned"
   /\ fn.entry = "run_backtest"
   /\ fn.name \in {"RSIStrategy", "MACDStrategy", "BollingerBandsStrategy"})
    => fn.columns = OwnColumns(fn.name, fn.self)

\* the confidences a strategy's signals may carry
ConfidenceInRange(name, confidence) ==
  /\ RLe(Zero, confidence)
  /\ RLe(confidence, One)
  /\ name = "RSIStrategy" => RLe(<<1, 10>>, confidence)
  /\ name \in {"MACDStrategy", "EMAGoldenCrossStrategy"} =>
       confidence = <<4, 5>>
  /\ name = "BollingerBandsStrategy" => confidence = <<7, 10>>

\* C29: every signal of the five strategies has a confidence in [0, 1]: in
\* [0.1, 1.0] for RSI whatever the RSI value and the thresholds, the fixed
\* constants for MACD, Bollinger and Golden Cross, and for EMAStrategy
\* entries min(alignment_score + strength_score, 1.0) with any
\* min_trend_strength > 0.
C29_ConfidenceInUnitInterval ==
  \A k \in 1..Len(fret) : ConfidenceInRange(fn.name, fret[k].confidence)

\* an RSI scan whose BUY and SELL both carry the lower clamp 0.1: the RSI
\* is just beyond the threshold
C29_Witness ==
  /\ fpc = "returned"
  /\ fn.name = "RSIStrategy"
  /\ fn.self.buy_threshold = R(30)
  /\ Len(fret) = 2
  /\ fret[1].confidence = <<1, 10>>
  /\ fret[2].confidence = <<1, 10>>

====
